---- MODULE Spec2Model ----
(***************************************************************************)
(* Semantic analysis of OmpSs task constructs: the data-sharing attribute  *)
(* stack (DSAStackTy), the whole-body walk (DSAAttrChecker), the walk over *)
(* depend/reduction clauses (OSSClauseDSAChecker), the clause validators   *)
(* and the directive construction of clang/lib/Sema/SemaOmpSs.cpp.         *)
(*                                                                         *)
(* The parser drives one construct through                                 *)
(*   StartOmpSsDSABlock; clause handlers; ActOnOmpSsAfterClauseGathering;  *)
(*   (nested constructs); ActOnOmpSsExecutableDirective; EndOmpSsDSABlock. *)
(***************************************************************************)
EXTENDS Integers, Sequences, FiniteSets

(***************************************************************************)
(* Bounds of the model.                                                    *)
(***************************************************************************)
\* deepest nesting of task constructs
MaxDepth == 3
\* items (variables named, default kinds) written in the clauses of the whole program
MaxItems == 3
\* references to variables (or `this`) in one task body
MaxBody == 2
\* depend/reduction clauses of one construct
MaxClauses == 2
\* items of one clause
MaxList == 2

(***************************************************************************)
(* The declarations of the program under analysis.                         *)
(*   g : an array at file scope      (non-local storage, not a pointer)    *)
(*   p : a pointer of the function   (local storage, a pointer)            *)
(***************************************************************************)
Vars == {"g", "p"}

hasLocalStorage(VD) == VD \in {"p", "t"}

isPointerType(VD) == VD = "p"

(***************************************************************************)
(* Expressions.  A DeclRefExpr is identified by its declaration and its    *)
(* place in the source: an item of a shared, private or firstprivate       *)
(* clause ("clause"), a reference in an expression of a depend or          *)
(* reduction clause ("dependency"), or a reference in the body under       *)
(* analysis ("body"), and its ordinal there.                               *)
(***************************************************************************)
NullExpr == [decl |-> "null", site |-> "null", n |-> 0]

ThisDecl == "this"

DeclRef(D, site, n) == [decl |-> D, site |-> site, n |-> n]

(***************************************************************************)
(* DSAStackTy                                                              *)
(***************************************************************************)
\* DSAStackTy::DSAVarData, default constructed
DSAVarData ==
  [DKind |-> "unknown", CKind |-> "unknown", RefExpr |-> NullExpr,
   Ignore |-> FALSE, Implicit |-> FALSE, CRestrict |-> "unknown"]

\* DSAStackTy::SharingMapTy, as constructed by push
SharingMapTy ==
  [SharingMap |-> << >>, DefaultAttr |-> "unspecified",
   Directive |-> "task", ThisExpr |-> NullExpr]

push(S) == Append(S, SharingMapTy)

pop(S) == SubSeq(S, 1, Len(S) - 1)

isStackEmpty(S) == Len(S) = 0

\* Stack.back() replaced by Top
SetBack(S, Top) == [S EXCEPT ![Len(S)] = Top]

\* SharingMap[D] = Data
MapSet(M, D, Data) ==
  [x \in (DOMAIN M) \cup {D} |-> IF x = D THEN Data ELSE M[x]]

getDSA(Iter, D) ==
  IF D \in DOMAIN Iter.SharingMap
  THEN [DKind |-> Iter.Directive,
        CKind |-> Iter.SharingMap[D].Attributes,
        RefExpr |-> Iter.SharingMap[D].RefExpr,
        Ignore |-> Iter.SharingMap[D].Ignore,
        Implicit |-> Iter.SharingMap[D].Implicit,
        CRestrict |-> Iter.SharingMap[D].CRestrict]
  ELSE [DSAVarData EXCEPT !.DKind = Iter.Directive]

\* addDSA writing to the outermost scope
addDSA_Outermost(S, D, E, A, Ignore, Implicit, CRestrict) ==
  [S EXCEPT ![1] = [S[1] EXCEPT !.SharingMap =
    MapSet(@, D, [Attributes |-> A, RefExpr |-> E, Ignore |-> Ignore,
                  Implicit |-> Implicit, CRestrict |-> CRestrict])]]

addDSA(S, D, E, A, Ignore, Implicit, CRestrict) ==
  SetBack(S, [S[Len(S)] EXCEPT !.SharingMap =
    MapSet(@, D, [Attributes |-> A, RefExpr |-> E, Ignore |-> Ignore,
                  Implicit |-> Implicit, CRestrict |-> CRestrict])])

IsTaskDir(Dir) == Dir = "task"

\* the clause predicate getTopDSA hands to hasDSA
AnyClause(Clause) == Clause # "shared"

\* the scan that stops at scope I, whatever it records for D
hasDSAFrom_Nearest(S, D, I) ==
  IF I = 0 THEN DSAVarData ELSE getDSA(S[I], D)

\* hasDSA with the predicates of getTopDSA, scanning from scope I outwards
RECURSIVE hasDSAFrom(_, _, _)
hasDSAFrom(S, D, I) ==
  IF I = 0 THEN DSAVarData
  ELSE IF ~IsTaskDir(S[I].Directive) THEN hasDSAFrom(S, D, I - 1)
  ELSE IF AnyClause(getDSA(S[I], D).CKind) THEN getDSA(S[I], D)
  ELSE hasDSAFrom(S, D, I - 1)

hasDSA(S, D, FromParent) ==
  hasDSAFrom(S, D, IF FromParent /\ Len(S) > 0 THEN Len(S) - 1 ELSE Len(S))

\* getTopDSA with a predicate that takes any attribute, shared too
getTopDSA_AnyAttribute(S, D, FromParent) ==
  LET I == IF FromParent /\ Len(S) > 0 THEN Len(S) - 1 ELSE Len(S)
      DVarTemp == IF I = 0 THEN DSAVarData ELSE getDSA(S[I], D)
  IN IF DVarTemp.CKind # "unknown" /\ DVarTemp.RefExpr # NullExpr
     THEN DVarTemp ELSE DSAVarData

getTopDSA(S, D, FromParent) ==
  LET DVarTemp == hasDSA(S, D, FromParent)
  IN IF DVarTemp.CKind # "unknown" /\ DVarTemp.RefExpr # NullExpr
     THEN DVarTemp ELSE DSAVarData

getCurrentDSA(S, D) ==
  IF Len(S) > 0 /\ IsTaskDir(S[Len(S)].Directive)
  THEN getDSA(S[Len(S)], D) ELSE DSAVarData

setDefaultDSANone(S) == SetBack(S, [S[Len(S)] EXCEPT !.DefaultAttr = "none"])

setDefaultDSAShared(S) == SetBack(S, [S[Len(S)] EXCEPT !.DefaultAttr = "shared"])

setThisExpr(S, ThisE) == SetBack(S, [S[Len(S)] EXCEPT !.ThisExpr = ThisE])

getCurrentDirective(S) == IF isStackEmpty(S) THEN "unknown" ELSE S[Len(S)].Directive

getCurrentDefaultDataSharingAttributtes(S) ==
  IF isStackEmpty(S) THEN "unspecified" ELSE S[Len(S)].DefaultAttr

getThisExpr(S) == IF isStackEmpty(S) THEN NullExpr ELSE S[Len(S)].ThisExpr

(***************************************************************************)
(* Diagnostics                                                             *)
(***************************************************************************)
Diag(kind, D) == [kind |-> kind, decl |-> D]

(***************************************************************************)
(* DSAAttrChecker: the walk over the statement associated with a task.     *)
(* A body is the sequence of the nodes the visitor meets, in order:        *)
(*   [node |-> "ref",  decl |-> v]   a DeclRefExpr of v                    *)
(*   [node |-> "this"]               a CXXThisExpr                         *)
(*   [node |-> "decl", decl |-> v]   a DeclStmt declaring v in the body    *)
(***************************************************************************)
\* the variable a task body may declare itself
InnerVar == "t"

\* DSAAttrChecker as constructed
DSAAttrChecker(S) ==
  [Stack |-> S, ErrorFound |-> FALSE, ImplicitShared |-> << >>,
   ImplicitFirstprivate |-> << >>, InnerDecls |-> {}, Diags |-> << >>,
   Unreachable |-> FALSE]

DSAAttrChecker_VisitCXXThisExpr(C, ThisE) ==
  IF getThisExpr(C.Stack) = NullExpr
  THEN [C EXCEPT !.Stack = setThisExpr(C.Stack, ThisE),
                 !.ImplicitShared = Append(@, ThisE)]
  ELSE C

\* case DSA_none without the record that keeps the diagnostic to one
DSAAttrChecker_DefaultNone_NoRecord(C, DVarCurrent, VD, E) ==
  IF ~DVarCurrent.Ignore
  THEN [C EXCEPT !.Diags =
                   Append(@, Diag("err_oss_not_defined_dsa_when_default_none", VD))]
  ELSE C

\* case DSA_none of DSAAttrChecker::VisitDeclRefExpr
DSAAttrChecker_DefaultNone(C, DVarCurrent, VD, E) ==
  IF ~DVarCurrent.Ignore
  THEN [C EXCEPT !.Diags =
                   Append(@, Diag("err_oss_not_defined_dsa_when_default_none", VD)),
                 !.Stack = addDSA(@, VD, E, "unknown", TRUE, TRUE, "unknown")]
  ELSE C

DSAAttrChecker_VisitDeclRefExpr(C, E) ==
  LET VD == E.decl
      DVarCurrent == getCurrentDSA(C.Stack, VD)
      DVarFromParent == getTopDSA(C.Stack, VD, TRUE)
      ExistsParent == DVarFromParent.RefExpr # NullExpr
      ParentIgnore == DVarFromParent.Ignore
      ExistsCurrent == DVarCurrent.RefExpr # NullExpr
  IN
  IF VD \in C.InnerDecls THEN C
  ELSE IF ExistsCurrent THEN C
  ELSE IF ExistsParent /\ ~ParentIgnore THEN
    CASE DVarFromParent.CKind = "shared" ->
           [C EXCEPT !.ImplicitShared = Append(@, E)]
      [] DVarFromParent.CKind \in {"private", "firstprivate"} ->
           [C EXCEPT !.ImplicitFirstprivate = Append(@, E)]
      [] OTHER -> [C EXCEPT !.Unreachable = TRUE]
  ELSE
    CASE getCurrentDefaultDataSharingAttributtes(C.Stack) = "shared" ->
           [C EXCEPT !.ImplicitShared = Append(@, E),
                     !.Stack = addDSA(@, VD, E, "shared", TRUE, TRUE, "unknown")]
      [] getCurrentDefaultDataSharingAttributtes(C.Stack) = "none" ->
           DSAAttrChecker_DefaultNone(C, DVarCurrent, VD, E)
      [] OTHER ->
           IF hasLocalStorage(VD)
           THEN [C EXCEPT !.ImplicitFirstprivate = Append(@, E),
                          !.Stack = addDSA(@, VD, E, "firstprivate", TRUE, TRUE, "unknown")]
           ELSE [C EXCEPT !.ImplicitShared = Append(@, E),
                          !.Stack = addDSA(@, VD, E, "shared", TRUE, TRUE, "unknown")]

DSAAttrChecker_VisitDeclStmt(C, VD) == [C EXCEPT !.InnerDecls = @ \cup {VD}]

\* Visit of the K-th node of the body
DSAAttrChecker_VisitNode(C, Node, K) ==
  CASE Node.node = "ref" ->
         DSAAttrChecker_VisitDeclRefExpr(C, DeclRef(Node.decl, "body", K))
    [] Node.node = "this" ->
         DSAAttrChecker_VisitCXXThisExpr(C, DeclRef(ThisDecl, "body", K))
    [] OTHER -> DSAAttrChecker_VisitDeclStmt(C, Node.decl)

\* DSAChecker.Visit(S): the nodes K..Len(Body) of the body, in order
RECURSIVE DSAAttrChecker_Visit(_, _, _)
DSAAttrChecker_Visit(C, Body, K) ==
  IF K > Len(Body) THEN C
  ELSE DSAAttrChecker_Visit(DSAAttrChecker_VisitNode(C, Body[K], K), Body, K + 1)

(***************************************************************************)
(* The validators of the shared, private and firstprivate clauses.         *)
(* A clause item is an expression; the validators take the items that are  *)
(* a DeclRefExpr of a variable, every other item gets a diagnostic from    *)
(* getPrivateItem.  Their result: the stack, the variables of the clause   *)
(* built, the diagnostics, and Res ("clause", or "null" for nullptr).      *)
(***************************************************************************)
\* getPrivateItem: the declaration of the item, or "null"
getPrivateItem(RefExpr) == IF RefExpr.decl \in Vars THEN RefExpr.decl ELSE "null"

\* every declaration of the program has a complete type
RequireCompleteType(D) == FALSE

ClauseResult(S) == [Stack |-> S, ClauseVars |-> << >>, Diags |-> << >>]

\* one iteration of the loop of ActOnOmpSsSharedClause
SharedClauseItem(R, RefExpr, isImplicit) ==
  LET D == getPrivateItem(RefExpr)
      DVar == getCurrentDSA(R.Stack, D)
  IN
  IF isImplicit /\ RefExpr.decl = ThisDecl
  THEN [R EXCEPT !.ClauseVars = Append(@, RefExpr)]
  ELSE IF D = "null"
  THEN [R EXCEPT !.Diags = Append(@, Diag("err_oss_expected_var_name_member_expr", RefExpr.decl))]
  ELSE IF DVar.CKind # "unknown" /\ DVar.CKind # "shared" /\ DVar.RefExpr # NullExpr
  THEN [R EXCEPT !.Diags = Append(@, Diag("err_oss_wrong_dsa", D))]
  ELSE [R EXCEPT !.Stack = addDSA(@, D, RefExpr, "shared", FALSE, FALSE, "unknown"),
                 !.ClauseVars = Append(@, RefExpr)]

\* one iteration of the loop of ActOnOmpSsPrivateClause
PrivateClauseItem(R, RefExpr) ==
  LET D == getPrivateItem(RefExpr)
      DVar == getCurrentDSA(R.Stack, D)
  IN
  IF D = "null"
  THEN [R EXCEPT !.Diags = Append(@, Diag("err_oss_expected_var_name_member_expr", RefExpr.decl))]
  ELSE IF RequireCompleteType(D) THEN R
  ELSE IF DVar.CKind # "unknown" /\ DVar.CKind # "private" /\ DVar.RefExpr # NullExpr
  THEN [R EXCEPT !.Diags = Append(@, Diag("err_oss_wrong_dsa", D))]
  ELSE [R EXCEPT !.Stack = addDSA(@, D, RefExpr, "private", FALSE, FALSE, "unknown"),
                 !.ClauseVars = Append(@, RefExpr)]

\* the iteration without the test of the attribute already recorded
FirstprivateClauseItem_Overwrite(R, RefExpr) ==
  LET D == getPrivateItem(RefExpr)
  IN
  IF D = "null"
  THEN [R EXCEPT !.Diags = Append(@, Diag("err_oss_expected_var_name_member_expr", RefExpr.decl))]
  ELSE [R EXCEPT !.Stack = addDSA(@, D, RefExpr, "firstprivate", FALSE, FALSE, "unknown"),
                 !.ClauseVars = Append(@, RefExpr)]

\* one iteration of the loop of ActOnOmpSsFirstprivateClause
FirstprivateClauseItem(R, RefExpr) ==
  LET D == getPrivateItem(RefExpr)
      DVar == getCurrentDSA(R.Stack, D)
  IN
  IF D = "null"
  THEN [R EXCEPT !.Diags = Append(@, Diag("err_oss_expected_var_name_member_expr", RefExpr.decl))]
  ELSE IF RequireCompleteType(D) THEN R
  ELSE IF DVar.CKind # "unknown" /\ DVar.CKind # "firstprivate" /\ DVar.RefExpr # NullExpr
  THEN [R EXCEPT !.Diags = Append(@, Diag("err_oss_wrong_dsa", D))]
  ELSE [R EXCEPT !.Stack = addDSA(@, D, RefExpr, "firstprivate", FALSE, FALSE, "unknown"),
                 !.ClauseVars = Append(@, RefExpr)]

RECURSIVE SharedClauseLoop(_, _, _, _)
SharedClauseLoop(R, VarList, K, isImplicit) ==
  IF K > Len(VarList) THEN R
  ELSE SharedClauseLoop(SharedClauseItem(R, VarList[K], isImplicit), VarList, K + 1, isImplicit)

RECURSIVE PrivateClauseLoop(_, _, _)
PrivateClauseLoop(R, VarList, K) ==
  IF K > Len(VarList) THEN R
  ELSE PrivateClauseLoop(PrivateClauseItem(R, VarList[K]), VarList, K + 1)

RECURSIVE FirstprivateClauseLoop(_, _, _)
FirstprivateClauseLoop(R, VarList, K) ==
  IF K > Len(VarList) THEN R
  ELSE FirstprivateClauseLoop(FirstprivateClauseItem(R, VarList[K]), VarList, K + 1)

\* the return statement the three validators share
ClauseReturn(R, VarList) ==
  [Stack |-> R.Stack, ClauseVars |-> R.ClauseVars, Diags |-> R.Diags,
   Res |-> IF VarList = << >> THEN "null" ELSE "clause"]

ActOnOmpSsSharedClause(S, VarList, isImplicit) ==
  ClauseReturn(SharedClauseLoop(ClauseResult(S), VarList, 1, isImplicit), VarList)

ActOnOmpSsPrivateClause(S, VarList) ==
  ClauseReturn(PrivateClauseLoop(ClauseResult(S), VarList, 1), VarList)

ActOnOmpSsFirstprivateClause(S, VarList) ==
  ClauseReturn(FirstprivateClauseLoop(ClauseResult(S), VarList, 1), VarList)

(***************************************************************************)
(* OSSClauseDSAChecker: the walk over the expressions of the depend and    *)
(* reduction clauses.  An expression is a tree:                            *)
(*   [node |-> "ref", decl |-> v]                      v                   *)
(*   [node |-> "unary", base |-> e, idx |-> <<>>]      *e                  *)
(*   [node |-> "member", base |-> e, idx |-> <<>>]     e.x, e->x           *)
(*   [node |-> "subscript", base |-> e, idx |-> <<i>>] e[i]                *)
(*   [node |-> "section", base |-> e, idx |-> <<..>>]  e[lb : len]         *)
(*   [node |-> "shaping", base |-> e, idx |-> <<..>>]  [s1]..[sn]e         *)
(* A clause is [kind |-> "depend" or "reduction", exprs |-> <<e, ...>>].   *)
(***************************************************************************)
\* OSSClauseDSAChecker as constructed; N is the ordinal of the next DeclRefExpr
OSSClauseDSAChecker(S, N) ==
  [Stack |-> S, CurClause |-> "unknown", ErrorFound |-> FALSE,
   ImplicitFirstprivate |-> << >>, ImplicitShared |-> << >>,
   ArraySubscriptCnt |-> 0, IsDerefMemberArrayBase |-> FALSE,
   Diags |-> << >>, N |-> N, AssertFailed |-> FALSE]

\* the position of the first element of L equal to E, or Len(L) + 1
RECURSIVE FindFrom(_, _, _)
FindFrom(L, E, K) ==
  IF K > Len(L) THEN K
  ELSE IF L[K] = E THEN K ELSE FindFrom(L, E, K + 1)

\* SmallVector::erase of the element at position K
Erase(L, K) == SubSeq(L, 1, K - 1) \o SubSeq(L, K + 1, Len(L))

\* case OSSC_firstprivate without the promotion of an implicit firstprivate
OSSClauseDSAChecker_Firstprivate_NoPromote(W1, DVarCurrent, E, VKind, CRestrict) ==
  IF VKind = "shared" /\ ~DVarCurrent.Implicit
  THEN [W1 EXCEPT !.ErrorFound = TRUE,
                  !.Diags = Append(@, Diag("err_oss_mismatch_depend_dsa", E.decl))]
  ELSE W1

\* case OSSC_firstprivate without the error for an explicit firstprivate
OSSClauseDSAChecker_Firstprivate_NoMismatch(W1, DVarCurrent, E, VKind, CRestrict) ==
  LET It == FindFrom(W1.ImplicitFirstprivate, DVarCurrent.RefExpr, 1)
  IN IF VKind = "shared" /\ DVarCurrent.Implicit
     THEN IF It > Len(W1.ImplicitFirstprivate)
          THEN [W1 EXCEPT !.AssertFailed = TRUE]
          ELSE [W1 EXCEPT !.ImplicitFirstprivate = Erase(@, It),
                          !.ImplicitShared = Append(@, E),
                          !.Stack = addDSA(@, E.decl, E, VKind, FALSE, TRUE, CRestrict)]
     ELSE W1

\* case OSSC_firstprivate of OSSClauseDSAChecker::VisitDeclRefExpr
OSSClauseDSAChecker_Firstprivate(W1, DVarCurrent, E, VKind, CRestrict) ==
  LET It == FindFrom(W1.ImplicitFirstprivate, DVarCurrent.RefExpr, 1)
  IN IF VKind = "shared"
     THEN IF DVarCurrent.Implicit
          THEN IF It > Len(W1.ImplicitFirstprivate)
               THEN [W1 EXCEPT !.AssertFailed = TRUE]
               ELSE [W1 EXCEPT !.ImplicitFirstprivate = Erase(@, It),
                               !.ImplicitShared = Append(@, E),
                               !.Stack = addDSA(@, E.decl, E, VKind, FALSE, TRUE, CRestrict)]
          ELSE [W1 EXCEPT !.ErrorFound = TRUE,
                          !.Diags = Append(@, Diag("err_oss_mismatch_depend_dsa", E.decl))]
     ELSE W1

\* the visit that takes a variable it made shared itself for one not seen yet
OSSClauseDSAChecker_VisitDeclRefExpr_SharedAgain(W0, VD) ==
  LET E == DeclRef(VD, "dependency", W0.N)
      W == [W0 EXCEPT !.N = @ + 1]
      VKind == IF W.ArraySubscriptCnt > 0 THEN "firstprivate"
               ELSE IF isPointerType(VD) /\ W.IsDerefMemberArrayBase THEN "firstprivate"
               ELSE "shared"
      DVarCurrent == getCurrentDSA(W.Stack, VD)
      Conflict == \/ DVarCurrent.CRestrict = "reduction"
                  \/ (DVarCurrent.CRestrict = "depend" /\ W.CurClause = "reduction")
      CRestrict == IF Conflict THEN "reduction" ELSE W.CurClause
      W1 == IF Conflict
            THEN [W EXCEPT !.ErrorFound = TRUE,
                           !.Diags = Append(@, Diag("err_oss_reduction_depend_conflict", VD))]
            ELSE W
  IN
  CASE DVarCurrent.CKind = "shared" /\ ~DVarCurrent.Implicit -> W1
    [] DVarCurrent.CKind = "private" -> W1
    [] DVarCurrent.CKind = "firstprivate" ->
         OSSClauseDSAChecker_Firstprivate(W1, DVarCurrent, E, VKind, CRestrict)
    [] OTHER ->
         [W1 EXCEPT !.ImplicitShared = IF VKind = "shared" THEN Append(@, E) ELSE @,
                    !.ImplicitFirstprivate = IF VKind = "firstprivate" THEN Append(@, E) ELSE @,
                    !.Stack = addDSA(@, VD, E, VKind, FALSE, TRUE, CRestrict)]

\* OSSClauseDSAChecker::VisitDeclRefExpr
OSSClauseDSAChecker_VisitDeclRefExpr(W0, VD) ==
  LET E == DeclRef(VD, "dependency", W0.N)
      W == [W0 EXCEPT !.N = @ + 1]
      VKind == IF W.ArraySubscriptCnt > 0 THEN "firstprivate"
               ELSE IF isPointerType(VD) /\ W.IsDerefMemberArrayBase THEN "firstprivate"
               ELSE "shared"
      DVarCurrent == getCurrentDSA(W.Stack, VD)
      Conflict == \/ DVarCurrent.CRestrict = "reduction"
                  \/ (DVarCurrent.CRestrict = "depend" /\ W.CurClause = "reduction")
      CRestrict == IF Conflict THEN "reduction" ELSE W.CurClause
      W1 == IF Conflict
            THEN [W EXCEPT !.ErrorFound = TRUE,
                           !.Diags = Append(@, Diag("err_oss_reduction_depend_conflict", VD))]
            ELSE W
  IN
  CASE DVarCurrent.CKind = "shared" -> W1
    [] DVarCurrent.CKind = "private" -> W1
    [] DVarCurrent.CKind = "firstprivate" ->
         OSSClauseDSAChecker_Firstprivate(W1, DVarCurrent, E, VKind, CRestrict)
    [] OTHER ->
         [W1 EXCEPT !.ImplicitShared = IF VKind = "shared" THEN Append(@, E) ELSE @,
                    !.ImplicitFirstprivate = IF VKind = "firstprivate" THEN Append(@, E) ELSE @,
                    !.Stack = addDSA(@, VD, E, VKind, FALSE, TRUE, CRestrict)]

\* Visit(E) and the visit of a list of index expressions
RECURSIVE OSSClauseDSAChecker_Visit(_, _), OSSClauseDSAChecker_VisitAll(_, _, _)
OSSClauseDSAChecker_Visit(W, E) ==
  IF E.node = "ref" THEN OSSClauseDSAChecker_VisitDeclRefExpr(W, E.decl)
  ELSE
    LET \* if (isa<DeclRefExpr>(base)) IsDerefMemberArrayBase = true; Visit(base);
        \* IsDerefMemberArrayBase = false
        WB == [OSSClauseDSAChecker_Visit(
                 [W EXCEPT !.IsDerefMemberArrayBase =
                             IF E.base.node = "ref" THEN TRUE ELSE @], E.base)
               EXCEPT !.IsDerefMemberArrayBase = FALSE]
    IN IF E.node \in {"unary", "member"} THEN WB
       ELSE \* subscript, section, shaping: ArraySubscriptCnt++ ... ArraySubscriptCnt--
         [OSSClauseDSAChecker_VisitAll(
            [WB EXCEPT !.ArraySubscriptCnt = @ + 1], E.idx, 1)
          EXCEPT !.ArraySubscriptCnt = @ - 1]

OSSClauseDSAChecker_VisitAll(W, Es, K) ==
  IF K > Len(Es) THEN W
  ELSE OSSClauseDSAChecker_VisitAll(OSSClauseDSAChecker_Visit(W, Es[K]), Es, K + 1)

OSSClauseDSAChecker_VisitClause(W, Clause) ==
  OSSClauseDSAChecker_VisitAll([W EXCEPT !.CurClause = Clause.kind], Clause.exprs, 1)

\* the loop over the clauses of ActOnOmpSsAfterClauseGathering
RECURSIVE VisitClauses(_, _, _)
VisitClauses(W, Clauses, K) ==
  IF K > Len(Clauses) THEN W
  ELSE VisitClauses(OSSClauseDSAChecker_VisitClause(W, Clauses[K]), Clauses, K + 1)

(***************************************************************************)
(* The implicit clauses built from the lists of a walk, as both            *)
(* ActOnOmpSsAfterClauseGathering and ActOnOmpSsExecutableDirective do.    *)
(* A: the stack, the clauses appended so far, the diagnostics, ErrorFound. *)
(***************************************************************************)
\* Clauses.push_back(Implicit) and the test of varlist_size(), or
\* ErrorFound = true without a clause
PushImplicit(A, Implicit, kind, Size) ==
  [Stack |-> Implicit.Stack,
   Clauses |-> IF Implicit.Res # "null"
               THEN Append(A.Clauses, [kind |-> kind, vars |-> Implicit.ClauseVars])
               ELSE A.Clauses,
   Diags |-> A.Diags \o Implicit.Diags,
   ErrorFound |-> A.ErrorFound \/ Implicit.Res = "null"
                  \/ Len(Implicit.ClauseVars) # Size]

ImplicitSharedClause(A, ImplicitShared) ==
  IF ImplicitShared = << >> THEN A
  ELSE PushImplicit(A, ActOnOmpSsSharedClause(A.Stack, ImplicitShared, TRUE),
                    "shared", Len(ImplicitShared))

ImplicitFirstprivateClause(A, ImplicitFirstprivate) ==
  IF ImplicitFirstprivate = << >> THEN A
  ELSE PushImplicit(A, ActOnOmpSsFirstprivateClause(A.Stack, ImplicitFirstprivate),
                    "firstprivate", Len(ImplicitFirstprivate))

ImplicitClauses(S, ImplicitShared, ImplicitFirstprivate, ErrorFound0) ==
  ImplicitFirstprivateClause(
    ImplicitSharedClause(
      [Stack |-> S, Clauses |-> << >>, Diags |-> << >>, ErrorFound |-> ErrorFound0],
      ImplicitShared),
    ImplicitFirstprivate)

\* what a handler leaves: the stack, its error flag, the lists of its walk,
\* the clauses it built, its diagnostics and its result
HandlerResult(S, ErrorFound, ImplicitShared, ImplicitFirstprivate, Clauses, Diags, Res, Abort) ==
  [Stack |-> S, ErrorFound |-> ErrorFound, ImplicitShared |-> ImplicitShared,
   ImplicitFirstprivate |-> ImplicitFirstprivate, Clauses |-> Clauses,
   Diags |-> Diags, Res |-> Res, Abort |-> Abort]

\* Sema::ActOnOmpSsDefaultClause(Kind)
ActOnOmpSsDefaultClause(S, Kind) ==
  CASE Kind = "none" ->
         HandlerResult(setDefaultDSANone(S), FALSE, << >>, << >>,
                       << [kind |-> "default", vars |-> << >>] >>, << >>, "clause", FALSE)
    [] Kind = "shared" ->
         HandlerResult(setDefaultDSAShared(S), FALSE, << >>, << >>,
                       << [kind |-> "default", vars |-> << >>] >>, << >>, "clause", FALSE)
    [] OTHER ->
         HandlerResult(S, FALSE, << >>, << >>, << >>,
                       << Diag("err_oss_unexpected_clause_value", "default") >>,
                       "null", FALSE)

\* the clause a validator returns, if any
VarListClauseOf(Kind, R) ==
  HandlerResult(R.Stack, FALSE, << >>, << >>,
                IF R.Res = "null" THEN << >>
                ELSE << [kind |-> Kind, vars |-> R.ClauseVars] >>,
                R.Diags, R.Res, FALSE)

\* Sema::ActOnOmpSsVarListClause, its cases OSSC_shared, OSSC_private and
\* OSSC_firstprivate
ActOnOmpSsVarListClause(S, Kind, VarList) ==
  CASE Kind = "shared" ->
         VarListClauseOf(Kind, ActOnOmpSsSharedClause(S, VarList, FALSE))
    [] Kind = "private" ->
         VarListClauseOf(Kind, ActOnOmpSsPrivateClause(S, VarList))
    [] Kind = "firstprivate" ->
         VarListClauseOf(Kind, ActOnOmpSsFirstprivateClause(S, VarList))

\* the end of ActOnOmpSsAfterClauseGathering: W is the clause walk done, I
\* the implicit clauses built from its lists
AfterClauseGatheringEnd(W, I) ==
  HandlerResult(I.Stack, I.ErrorFound, W.ImplicitShared, W.ImplicitFirstprivate,
                I.Clauses, W.Diags \o I.Diags, "void", W.AssertFailed)

AfterClauseWalkDone(W) ==
  AfterClauseGatheringEnd(
    W, ImplicitClauses(W.Stack, W.ImplicitShared, W.ImplicitFirstprivate, W.ErrorFound))

\* ActOnOmpSsAfterClauseGathering(Clauses); N is the ordinal of the first
\* DeclRefExpr of the clauses.  The function returns void: ErrorFound is its
\* local variable.
ActOnOmpSsAfterClauseGathering(S, Clauses, N) ==
  AfterClauseWalkDone(VisitClauses(OSSClauseDSAChecker(S, N), Clauses, 1))

\* the end of ActOnOmpSsExecutableDirective: C is the body walk done, I the
\* implicit clauses built from its lists
ExecutableDirectiveEnd(C, I) ==
  HandlerResult(I.Stack, I.ErrorFound, C.ImplicitShared, C.ImplicitFirstprivate,
                I.Clauses, C.Diags \o I.Diags,
                IF I.ErrorFound THEN "StmtError" ELSE "OSSTaskDirective",
                C.Unreachable)

BodyWalkDone(C) ==
  ExecutableDirectiveEnd(
    C, ImplicitClauses(C.Stack, C.ImplicitShared, C.ImplicitFirstprivate, C.ErrorFound))

\* ActOnOmpSsExecutableDirective(Clauses, OSSD_task, AStmt) on a body
ActOnOmpSsExecutableDirective(S, Body) ==
  BodyWalkDone(DSAAttrChecker_Visit(DSAAttrChecker(S), Body, 1))

(***************************************************************************)
(* Dependency clauses: the kinds of a depend clause and the dependency     *)
(* keywords of the OmpSs-2 syntax.                                         *)
(***************************************************************************)
OmpSsDependClauseKind ==
  {"in", "out", "inout", "inoutset", "mutexinoutset", "weak", "unknown"}

\* the parser hands ActOnOmpSsDependKinds one kind, or two
MaxKinds == 2

Count(DepKinds, K) == Cardinality({i \in 1..Len(DepKinds) : DepKinds[i] = K})

\* Sema::ActOnOmpSsDependKinds
ActOnOmpSsDependKinds(DepKinds) ==
  LET numWeaks == Count(DepKinds, "weak")
      numUnk == Count(DepKinds, "unknown")
      numNoWeakCompats ==
        IF DepKinds[1] = "inoutset" \/ DepKinds[2] = "inoutset" THEN 1 ELSE 0
      Reject(d) == [ok |-> FALSE, DepKindsOrdered |-> << >>,
                    Diags |-> << Diag(d, "depend") >>]
      Ordered ==
        IF DepKinds[1] = "weak" THEN << DepKinds[2], DepKinds[1] >>
        ELSE IF Len(DepKinds) = 2 THEN << DepKinds[1], DepKinds[2] >>
        ELSE << DepKinds[1] >>
      Accept == [ok |-> TRUE, DepKindsOrdered |-> Ordered, Diags |-> << >>]
  IN IF Len(DepKinds) = 2
     THEN IF numNoWeakCompats # 0
          THEN Reject("err_oss_depend_no_weak_compatible")
          ELSE IF numWeaks = 0
          THEN IF numUnk = 0 \/ numUnk = 1
               THEN Reject("err_oss_depend_weak_required")
               ELSE Reject("err_oss_unexpected_clause_value")
          ELSE IF (numWeaks = 1 /\ numUnk = 1) \/ (numWeaks = 2 /\ numUnk = 0)
          THEN Reject("err_oss_unexpected_clause_value")
          ELSE Accept
     ELSE IF DepKinds[1] = "unknown" \/ DepKinds[1] = "weak"
          THEN Reject("err_oss_unexpected_clause_value")
          ELSE Accept

\* an item of a dependency clause: whether it is an lvalue, what an array
\* subscript is applied to, and the forms of its array sections from the
\* outermost in (TRUE for the colon form  x[lower : upper])
DepItem(name, isLValue, aseBase, sections) ==
  [expr |-> name, isLValue |-> isLValue, aseBase |-> aseBase, sections |-> sections]

DepItems ==
  { DepItem("x", TRUE, "none", << >>),
    DepItem("f()", FALSE, "none", << >>),
    DepItem("a[i]", TRUE, "array", << >>),
    DepItem("v[i]", TRUE, "vector", << >>),
    DepItem("a[i:j]", TRUE, "none", << TRUE >>),
    DepItem("a[i;n]", TRUE, "none", << FALSE >>) }

\* the loop body of Sema::ActOnOmpSsDependClause for one item
DependClauseItem(R, RefExpr, OSSSyntax) ==
  IF ~RefExpr.isLValue \/ RefExpr.aseBase \notin {"none", "array", "pointer"}
  THEN [R EXCEPT !.Diags =
          Append(@, Diag("err_oss_expected_addressable_lvalue_or_array_item", RefExpr.expr))]
  ELSE IF \E i \in 1..Len(RefExpr.sections) : ~RefExpr.sections[i] /\ ~OSSSyntax
  THEN [R EXCEPT !.Diags = Append(@, Diag("err_oss_section_invalid_form", RefExpr.expr))]
  ELSE [R EXCEPT !.ClauseVars = Append(@, RefExpr)]

RECURSIVE DependClauseLoop(_, _, _, _)
DependClauseLoop(R, VarList, OSSSyntax, K) ==
  IF K > Len(VarList) THEN R
  ELSE DependClauseLoop(DependClauseItem(R, VarList[K], OSSSyntax), VarList, OSSSyntax, K + 1)

\* Sema::ActOnOmpSsDependClause
ActOnOmpSsDependClause(DepKinds, VarList, OSSSyntax) ==
  LET V == ActOnOmpSsDependKinds(DepKinds)
      R == DependClauseLoop([ClauseVars |-> << >>, Diags |-> << >>], VarList, OSSSyntax, 1)
  IN IF ~V.ok
     THEN [Res |-> "null", DepKinds |-> DepKinds, DepKindsOrdered |-> << >>,
           ClauseVars |-> << >>, Diags |-> V.Diags, OSSSyntax |-> OSSSyntax]
     ELSE [Res |-> "OSSDependClause", DepKinds |-> DepKinds,
           DepKindsOrdered |-> V.DepKindsOrdered, ClauseVars |-> R.ClauseVars,
           Diags |-> R.Diags, OSSSyntax |-> OSSSyntax]

DependencyKeywords ==
  {"in", "out", "inout", "concurrent", "commutative", "weakin", "weakout",
   "weakinout", "weakconcurrent", "weakcommutative"}

\* Sema::ActOnOmpSsVarListClause, its cases for the dependency clauses
ActOnOmpSsVarListClause_Depend(Kind, VarList, DepKinds) ==
  CASE Kind = "depend" -> ActOnOmpSsDependClause(DepKinds, VarList, FALSE)
    [] Kind = "in" -> ActOnOmpSsDependClause(<< "in" >>, VarList, TRUE)
    [] Kind = "out" -> ActOnOmpSsDependClause(<< "out" >>, VarList, TRUE)
    [] Kind = "inout" -> ActOnOmpSsDependClause(<< "inout" >>, VarList, TRUE)
    [] Kind = "concurrent" -> ActOnOmpSsDependClause(<< "inoutset" >>, VarList, TRUE)
    [] Kind = "commutative" -> ActOnOmpSsDependClause(<< "mutexinoutset" >>, VarList, TRUE)
    [] Kind = "weakin" -> ActOnOmpSsDependClause(<< "in", "weak" >>, VarList, TRUE)
    [] Kind = "weakout" -> ActOnOmpSsDependClause(<< "out", "weak" >>, VarList, TRUE)
    [] Kind = "weakinout" -> ActOnOmpSsDependClause(<< "inout", "weak" >>, VarList, TRUE)
    [] Kind = "weakconcurrent" ->
         ActOnOmpSsDependClause(<< "inoutset", "weak" >>, VarList, TRUE)
    [] Kind = "weakcommutative" ->
         ActOnOmpSsDependClause(<< "mutexinoutset", "weak" >>, VarList, TRUE)

(***************************************************************************)
(* The inputs the parser hands to the handlers.                            *)
(***************************************************************************)
Ref(v) == [node |-> "ref", decl |-> v]

\* sequences over A of length Lo..Hi
SeqsOf(A, Lo, Hi) == UNION {[1..n -> A] : n \in Lo..Hi}

\* expressions of a depend or reduction clause: x, *x, x[:], x[y]
DepExprs ==
  {Ref(v) : v \in Vars}
  \cup {[node |-> k, base |-> Ref(v), idx |-> << >>] :
          k \in {"unary", "section"}, v \in Vars}
  \cup {[node |-> "subscript", base |-> Ref(v), idx |-> << Ref(w) >>] :
          v \in Vars, w \in Vars}

RECURSIVE NumRefs(_), NumRefsAll(_, _)
NumRefs(E) ==
  IF E.node = "ref" THEN 1 ELSE NumRefs(E.base) + NumRefsAll(E.idx, 1)

NumRefsAll(Es, K) ==
  IF K > Len(Es) THEN 0 ELSE NumRefs(Es[K]) + NumRefsAll(Es, K + 1)

\* lists of at most K expressions that name at most B variables
RECURSIVE ExprLists(_, _)
ExprLists(K, B) ==
  IF K = 0 THEN {<< >>}
  ELSE {<< >>} \cup
       UNION {{<< E >> \o L : L \in ExprLists(K - 1, B - NumRefs(E))} :
                E \in {X \in DepExprs : NumRefs(X) <= B}}

\* the depend and reduction clauses that name at most B variables
DepClauses(B) ==
  [kind : {"depend", "reduction"}, exprs : ExprLists(MaxList, B) \ {<< >>}]

RECURSIVE NumRefsClauses(_, _)
NumRefsClauses(Cs, K) ==
  IF K > Len(Cs) THEN 0
  ELSE NumRefsAll(Cs[K].exprs, 1) + NumRefsClauses(Cs, K + 1)

\* lists of at most K such clauses that name at most B variables
RECURSIVE ClauseLists(_, _)
ClauseLists(K, B) ==
  IF K = 0 THEN {<< >>}
  ELSE {<< >>} \cup
       UNION {{<< C >> \o L : L \in ClauseLists(K - 1, B - NumRefsAll(C.exprs, 1))} :
                C \in DepClauses(B)}

\* the nodes of a task body
BodyNodes ==
  {[node |-> "ref", decl |-> v] : v \in Vars \cup {InnerVar}}
  \cup {[node |-> "this", decl |-> ThisDecl], [node |-> "decl", decl |-> InnerVar]}

\* a body refers to the variable it declares only after the declaration
WellFormedBody(B) ==
  \A k \in 1..Len(B) :
    (B[k].node = "ref" /\ B[k].decl = InnerVar)
      => \E j \in 1..(k - 1) : B[j].node = "decl"

Bodies == {B \in SeqsOf(BodyNodes, 0, MaxBody) : WellFormedBody(B)}

\* the items of a shared, private or firstprivate clause: variables, or an
\* expression that is no variable
NonVar == "expr"

RECURSIVE ItemExprs(_, _, _)
ItemExprs(Ds, N, K) ==
  IF K > Len(Ds) THEN << >>
  ELSE << DeclRef(Ds[K], "clause", N + K - 1) >> \o ItemExprs(Ds, N, K + 1)

(***************************************************************************)
(* The clauses of one expression: if, final, cost and priority.  Of the    *)
(* expression the validators ask whether it is dependent (on a template    *)
(* parameter), its type, and whether it is an integer constant expression  *)
(* and of which value.  Conv is the conversion Sema has wrapped it in.     *)
(***************************************************************************)
NullSingleExpr ==
  [null |-> TRUE, TypeDependent |-> FALSE, ValueDependent |-> FALSE,
   InstantiationDependent |-> FALSE, UnexpandedParameterPack |-> FALSE,
   Type |-> "void", ICE |-> FALSE, Value |-> 0, Conv |-> "none"]

SingleExpr(TD, VD, ID, Pack, Type, ICE, Value) ==
  [null |-> FALSE, TypeDependent |-> TD, ValueDependent |-> VD,
   InstantiationDependent |-> ID, UnexpandedParameterPack |-> Pack,
   Type |-> Type, ICE |-> ICE, Value |-> Value, Conv |-> "none"]

\* the values of the integer constant expressions
ICEValues == {-1, 0, 1}

SingleExprTypes == {"int", "unsigned", "float", "struct"}

\* a type-dependent expression is value-dependent, a value-dependent one is
\* instantiation-dependent, as is one with an unexpanded parameter pack; a
\* value-dependent expression is no constant yet
SingleExprs ==
  {SingleExpr(FALSE, FALSE, FALSE, FALSE, T, FALSE, 0) : T \in SingleExprTypes}
  \cup {SingleExpr(FALSE, FALSE, FALSE, FALSE, T, TRUE, V) :
          T \in {"int", "unsigned"}, V \in ICEValues}
  \cup {SingleExpr(FALSE, VD, TRUE, Pack, T, FALSE, 0) :
          VD \in BOOLEAN, Pack \in BOOLEAN, T \in SingleExprTypes}
  \cup {SingleExpr(TRUE, TRUE, TRUE, Pack, "dependent", FALSE, 0) : Pack \in BOOLEAN}

\* ExprResult: ExprError() is invalid, ExprEmpty() is valid and holds no
\* expression; Diags are the diagnostics emitted on the way
ExprResultOf(Val, Diags) == [Invalid |-> FALSE, Val |-> Val, Diags |-> Diags, Abort |-> FALSE]

ExprError(Diags) == [Invalid |-> TRUE, Val |-> NullSingleExpr, Diags |-> Diags, Abort |-> FALSE]

ExprEmpty == ExprResultOf(NullSingleExpr, << >>)

\* the process dies
ExprCrash == [Invalid |-> FALSE, Val |-> NullSingleExpr, Diags |-> << >>, Abort |-> TRUE]

isDependent(E) ==
  \/ E.ValueDependent
  \/ E.TypeDependent
  \/ E.InstantiationDependent
  \/ E.UnexpandedParameterPack

\* Sema::CheckBooleanCondition: the contextual conversion to bool
CheckBooleanCondition(E) ==
  IF E.Type = "struct"
  THEN ExprError(<< Diag("err_typecheck_statement_requires_scalar", E.Type) >>)
  ELSE ExprResultOf([E EXCEPT !.Conv = "bool"], << >>)

\* Sema::MakeFullExpr
MakeFullExpr(E) == [E EXCEPT !.Conv = "full"]

\* Sema::VerifyBooleanConditionWithCleanups
VerifyBooleanConditionWithCleanups(Condition) ==
  IF ~isDependent(Condition)
  THEN LET Val == CheckBooleanCondition(Condition)
       IN IF Val.Invalid THEN ExprError(Val.Diags)
          ELSE ExprResultOf(MakeFullExpr(Val.Val), Val.Diags)
  ELSE ExprResultOf(Condition, << >>)

\* Sema::PerformOmpSsImplicitIntegerConversion: the contextual implicit
\* conversion to an integral type; a class with two conversion functions
\* is ambiguous, any other type that is not integral is diagnosed and the
\* expression handed back
PerformOmpSsImplicitIntegerConversion(Op) ==
  IF Op.null THEN ExprError(<< >>)
  ELSE IF Op.Type \in {"int", "unsigned"}
  THEN ExprResultOf([Op EXCEPT !.Conv = "rvalue"], << >>)
  ELSE IF Op.Type = "struct"
  THEN ExprError(<< Diag("err_oss_ambiguous_conversion", Op.Type) >>)
  ELSE ExprResultOf(Op, << Diag("err_oss_not_integral", Op.Type) >>)

\* Sema::CheckSignedIntegerValue
CheckSignedIntegerValue(ValExpr) ==
  IF ~isDependent(ValExpr)
  THEN LET Value == PerformOmpSsImplicitIntegerConversion(ValExpr)
       IN IF Value.Invalid THEN ExprError(Value.Diags)
          ELSE ExprResultOf(Value.Val, Value.Diags)
  ELSE ExprEmpty

\* Sema::CheckNonNegativeIntegerValue, the set of its outcomes.  When
\* CheckSignedIntegerValue hands back ExprEmpty() the call
\* ValExpr->isIntegerConstantExpr is made through a null pointer: the
\* behaviour is undefined, the process dies or goes on with either answer.
CheckNonNegativeIntegerValue(E, CKind, StrictlyPositive) ==
  LET Res == CheckSignedIntegerValue(E)
      ValExpr == Res.Val
  IN
  IF Res.Invalid THEN {ExprError(Res.Diags)}
  ELSE IF ValExpr.null
  THEN {ExprCrash,
        ExprError(Res.Diags \o << Diag("err_oss_negative_expression_in_clause", CKind) >>),
        ExprResultOf(ValExpr, Res.Diags)}
  ELSE IF /\ ValExpr.ICE
          /\ ValExpr.Type = "int"
          /\ ~ \/ (~StrictlyPositive /\ ValExpr.Value >= 0)
               \/ (StrictlyPositive /\ ValExpr.Value > 0)
  THEN {ExprError(Res.Diags \o << Diag("err_oss_negative_expression_in_clause", CKind) >>)}
  ELSE {ExprResultOf(ValExpr, Res.Diags)}

\* `if (Res.isInvalid()) return nullptr; return new (Context) OSS...Clause(Res.get(), ...)`
SingleExprClauseOf(Kind, E, Res) ==
  [Kind |-> Kind, Expr |-> E,
   Res |-> IF Res.Invalid \/ Res.Abort THEN "null" ELSE "clause",
   Clause |-> Res.Val, Diags |-> Res.Diags, Abort |-> Res.Abort]

ActOnOmpSsIfClause(Condition) ==
  {SingleExprClauseOf("if", Condition, VerifyBooleanConditionWithCleanups(Condition))}

ActOnOmpSsFinalClause(Condition) ==
  {SingleExprClauseOf("final", Condition, VerifyBooleanConditionWithCleanups(Condition))}

ActOnOmpSsCostClause(E) ==
  {SingleExprClauseOf("cost", E, Res) : Res \in CheckNonNegativeIntegerValue(E, "cost", FALSE)}

ActOnOmpSsPriorityClause(E) ==
  {SingleExprClauseOf("priority", E, CheckSignedIntegerValue(E))}

SingleExprKinds == {"if", "final", "cost", "priority"}

\* Sema::ActOnOmpSsSingleExprClause
ActOnOmpSsSingleExprClause(Kind, Expr) ==
  CASE Kind = "if" -> ActOnOmpSsIfClause(Expr)
    [] Kind = "final" -> ActOnOmpSsFinalClause(Expr)
    [] Kind = "cost" -> ActOnOmpSsCostClause(Expr)
    [] Kind = "priority" -> ActOnOmpSsPriorityClause(Expr)

(***************************************************************************)
(* The state: the DSA stack, the parser's position in every open           *)
(* construct, what the last handler was given and what it produced, and    *)
(* the number of clause items parsed so far, for every open construct      *)
(* whether a validation error was diagnosed while its clauses and body     *)
(* were analysed; and the dependency clause the parser built last.         *)
(***************************************************************************)
\* pushed[i] is the stack as it was when scope i was pushed (the scopes that
\* enclose scope i); the entry of a popped scope is kept until the next
\* operation
\* region is the dependency CodeGen was handed and the descriptor it emitted
VARIABLES Stack, pc, last, nitems, diagnosed, dep, pushed, region, scan, single, lower

vars == << Stack, pc, last, nitems, diagnosed, dep, pushed, region, scan, single, lower >>

NoDep ==
  [Kind |-> "unknown", VarList |-> << >>, Res |-> "null", DepKinds |-> << >>,
   DepKindsOrdered |-> << >>, ClauseVars |-> << >>, Diags |-> << >>,
   OSSSyntax |-> FALSE]

\* no dependency emitted yet
NoRegion ==
  [E |-> NullExpr, OSSSyntax |-> FALSE, Dims |-> << >>, Starts |-> << >>,
   Ends |-> << >>, BaseElementSize |-> 0, DepData |-> << >>, Abort |-> FALSE]

\* no function has been handed to the region analysis
NoScan ==
  [F |-> << >>, DisableChecks |-> FALSE, II |-> 0, Stack |-> << >>,
   PostOrder |-> << >>, TwPostOrder |-> << >>, TPO |-> << >>, Abort |-> "none"]

\* no if, final, cost or priority clause validated yet
NoSingle ==
  [Kind |-> "unknown", Expr |-> NullSingleExpr, Res |-> "null",
   Clause |-> NullSingleExpr, Diags |-> << >>, Abort |-> FALSE]

\* the lowering pass has not run: no build chosen, no task lowered, no
\* dependency registration function declared
NoLower ==
  [Initialized |-> FALSE, NDEBUG |-> FALSE, NumTasks |-> 0, taskNum |-> 0,
   TI |-> << >>, TaskArgsTy |-> << >>, TaskArgsToStructIdxMap |-> << >>,
   TaskTypeList |-> << >>, OlTaskCall |-> << >>, OlDepsCall |-> << >>,
   OlConstraintsCall |-> << >>, DepCalls |-> << >>, TaskImplInfoVar |-> << >>,
   DepNameToFuncCalleeMap |-> {}, Abort |-> FALSE]

NoResult(op) ==
  [op |-> op, pre |-> SharingMapTy, VarList |-> << >>, InClauses |-> << >>,
   Body |-> << >>, Kind |-> "unknown",
   ImplicitShared |-> << >>, ImplicitFirstprivate |-> << >>, Clauses |-> << >>,
   Diags |-> << >>, ErrorFound |-> FALSE, Res |-> "void", Abort |-> FALSE]

Top == Stack[Len(Stack)]

InPhase(ph) == Len(Stack) > 0 /\ pc[Len(pc)] = ph

SetPhase(ph) == [pc EXCEPT ![Len(pc)] = ph]

\* the errors of the body walk, of the clause walk and of the validators of
\* the shared, private and firstprivate clauses
ValidationErrors ==
  {"err_oss_not_defined_dsa_when_default_none", "err_oss_reduction_depend_conflict",
   "err_oss_mismatch_depend_dsa", "err_oss_expected_var_name_member_expr",
   "err_oss_wrong_dsa"}

\* the diagnostics Diags were emitted for the innermost construct
Emit(Diags) ==
  [diagnosed EXCEPT ![Len(diagnosed)] =
     @ \/ \E i \in 1..Len(Diags) : Diags[i].kind \in ValidationErrors]

Init ==
  /\ Stack = << >>
  /\ pc = << >>
  /\ last = NoResult("InitDataSharingAttributesStackOmpSs")
  /\ nitems = 0
  /\ diagnosed = << >>
  /\ dep = NoDep
  /\ pushed = << >>
  /\ region = NoRegion
  /\ scan = NoScan
  /\ single = NoSingle
  /\ lower = NoLower

\* Sema::StartOmpSsDSABlock: the pragma of a task construct, at top level or
\* inside the body of the construct being parsed
StartOmpSsDSABlock ==
  /\ Len(Stack) < MaxDepth
  /\ Len(Stack) > 0 => InPhase("body")
  /\ Stack' = push(Stack)
  /\ pc' = Append(pc, "clauses")
  /\ last' = NoResult("StartOmpSsDSABlock")
  /\ diagnosed' = Append(diagnosed, FALSE)
  /\ pushed' = Append(SubSeq(pushed, 1, Len(Stack)), Stack)
  /\ UNCHANGED << nitems, dep, region, scan, single, lower >>

\* the handler op, given Kind, VarList, InClauses or Body, returns R
Returns(op, Kind, VarList, InClauses, Body, R) ==
  /\ Stack' = R.Stack
  /\ last' = [op |-> op, pre |-> Top, VarList |-> VarList, InClauses |-> InClauses,
              Body |-> Body, Kind |-> Kind,
              ImplicitShared |-> R.ImplicitShared,
              ImplicitFirstprivate |-> R.ImplicitFirstprivate,
              Clauses |-> R.Clauses, Diags |-> R.Diags,
              ErrorFound |-> R.ErrorFound, Res |-> R.Res, Abort |-> R.Abort]
  /\ diagnosed' = Emit(R.Diags)
  /\ pushed' = SubSeq(pushed, 1, Len(Stack))

\* Sema::ActOnOmpSsDefaultClause
DefaultClause ==
  /\ InPhase("clauses")
  /\ nitems < MaxItems
  /\ \E Kind \in {"none", "shared", "unknown"} :
       Returns("ActOnOmpSsDefaultClause", Kind, << >>, << >>, << >>,
               ActOnOmpSsDefaultClause(Stack, Kind))
  /\ nitems' = nitems + 1
  /\ UNCHANGED << pc, dep, region, scan, single, lower >>

\* Sema::ActOnOmpSsVarListClause for the shared, private and firstprivate clauses
VarListClause ==
  /\ InPhase("clauses")
  /\ \E Kind \in {"shared", "private", "firstprivate"},
        Ds \in SeqsOf(Vars \cup {NonVar}, 1, MaxList) :
       /\ nitems + Len(Ds) <= MaxItems
       /\ Returns("ActOnOmpSsVarListClause", Kind, ItemExprs(Ds, nitems + 1, 1),
                  << >>, << >>,
                  ActOnOmpSsVarListClause(Stack, Kind, ItemExprs(Ds, nitems + 1, 1)))
       /\ nitems' = nitems + Len(Ds)
  /\ UNCHANGED << pc, dep, region, scan, single, lower >>

\* Sema::ActOnOmpSsAfterClauseGathering, on the depend and reduction clauses
\* the parser has gathered for the construct
AfterClauseGathering ==
  /\ InPhase("clauses")
  /\ \E Clauses \in ClauseLists(MaxClauses, MaxItems - nitems) :
       /\ Returns("ActOnOmpSsAfterClauseGathering", "unknown", << >>, Clauses, << >>,
                  ActOnOmpSsAfterClauseGathering(Stack, Clauses, nitems + 1))
       /\ nitems' = nitems + NumRefsClauses(Clauses, 1)
  /\ pc' = SetPhase("body")
  /\ UNCHANGED << dep, region, scan, single, lower >>

\* Sema::ActOnOmpSsExecutableDirective, once the associated statement is parsed
ExecutableDirective ==
  /\ InPhase("body")
  /\ \E Body \in Bodies :
       Returns("ActOnOmpSsExecutableDirective", "unknown", << >>, << >>, Body,
               ActOnOmpSsExecutableDirective(Stack, Body))
  /\ pc' = SetPhase("done")
  /\ UNCHANGED << nitems, dep, region, scan, single, lower >>

\* Sema::EndOmpSsDSABlock
EndOmpSsDSABlock ==
  /\ InPhase("done")
  /\ Stack' = pop(Stack)
  /\ pc' = SubSeq(pc, 1, Len(pc) - 1)
  /\ last' = NoResult("EndOmpSsDSABlock")
  /\ diagnosed' = SubSeq(diagnosed, 1, Len(diagnosed) - 1)
  /\ pushed' = SubSeq(pushed, 1, Len(Stack))
  /\ UNCHANGED << nitems, dep, region, scan, single, lower >>

Next ==
  \/ StartOmpSsDSABlock
  \/ DefaultClause
  \/ VarListClause
  \/ AfterClauseGathering
  \/ ExecutableDirective
  \/ EndOmpSsDSABlock

Spec == Init /\ [][Next]_vars

(***************************************************************************)
(* The dependency clauses on their own: the parser hands                   *)
(* ActOnOmpSsVarListClause a depend clause with its kinds, or a clause of  *)
(* a dependency keyword.  The handler keeps nothing from one clause to the *)
(* next, so a behaviour is one clause.                                     *)
(***************************************************************************)
DependResult(Kind, VarList, R) ==
  [Kind |-> Kind, VarList |-> VarList, Res |-> R.Res, DepKinds |-> R.DepKinds,
   DepKindsOrdered |-> R.DepKindsOrdered, ClauseVars |-> R.ClauseVars,
   Diags |-> R.Diags, OSSSyntax |-> R.OSSSyntax]

\* depend(kind [, kind] : items)
DependClause ==
  /\ dep = NoDep
  /\ \E DepKinds \in SeqsOf(OmpSsDependClauseKind, 1, MaxKinds),
        VarList \in SeqsOf(DepItems, 1, MaxList) :
       dep' = DependResult("depend", VarList,
                           ActOnOmpSsVarListClause_Depend("depend", VarList, DepKinds))
  /\ UNCHANGED << Stack, pc, last, nitems, diagnosed, pushed, region, scan, single, lower >>

\* in(items), out(items), ..., weakcommutative(items)
KeywordClause ==
  /\ dep = NoDep
  /\ \E Kind \in DependencyKeywords, VarList \in SeqsOf(DepItems, 1, MaxList) :
       dep' = DependResult(Kind, VarList,
                           ActOnOmpSsVarListClause_Depend(Kind, VarList, << >>))
  /\ UNCHANGED << Stack, pc, last, nitems, diagnosed, pushed, region, scan, single, lower >>

NextDepend == DependClause \/ KeywordClause

SpecDepend == Init /\ [][NextDepend]_vars

(***************************************************************************)
(* The operations of DSAStackTy on their own, in any order: nitems counts  *)
(* the items recorded (attributes, default policies, this-expressions).    *)
(***************************************************************************)
StackOp(op, S) ==
  /\ Stack' = S
  /\ last' = [NoResult(op) EXCEPT !.pre = IF Len(Stack) > 0 THEN Top ELSE SharingMapTy]
  /\ pushed' = SubSeq(pushed, 1, Len(Stack))
  /\ UNCHANGED << pc, diagnosed, dep, region, scan, single, lower >>

\* DSAStackTy::push
Push ==
  /\ Len(Stack) < MaxDepth
  /\ Stack' = push(Stack)
  /\ last' = NoResult("push")
  /\ pushed' = Append(SubSeq(pushed, 1, Len(Stack)), Stack)
  /\ UNCHANGED << pc, nitems, diagnosed, dep, region, scan, single, lower >>

\* DSAStackTy::pop
Pop ==
  /\ ~isStackEmpty(Stack)
  /\ StackOp("pop", pop(Stack))
  /\ UNCHANGED nitems

\* DSAStackTy::addDSA
AddDSA ==
  /\ ~isStackEmpty(Stack)
  /\ nitems < MaxItems
  /\ \E D \in Vars, A \in {"shared", "private", "firstprivate"}, Inferred \in BOOLEAN :
       StackOp("addDSA",
               addDSA(Stack, D, DeclRef(D, IF Inferred THEN "body" ELSE "clause", nitems + 1),
                      A, Inferred, Inferred, "unknown"))
  /\ nitems' = nitems + 1

\* DSAStackTy::setDefaultDSANone
SetDefaultDSANone ==
  /\ ~isStackEmpty(Stack)
  /\ nitems < MaxItems
  /\ StackOp("setDefaultDSANone", setDefaultDSANone(Stack))
  /\ nitems' = nitems + 1

\* DSAStackTy::setDefaultDSAShared
SetDefaultDSAShared ==
  /\ ~isStackEmpty(Stack)
  /\ nitems < MaxItems
  /\ StackOp("setDefaultDSAShared", setDefaultDSAShared(Stack))
  /\ nitems' = nitems + 1

\* DSAStackTy::setThisExpr
SetThisExpr ==
  /\ ~isStackEmpty(Stack)
  /\ nitems < MaxItems
  /\ StackOp("setThisExpr", setThisExpr(Stack, DeclRef(ThisDecl, "body", nitems + 1)))
  /\ nitems' = nitems + 1

NextStack ==
  \/ Push
  \/ Pop
  \/ AddDSA
  \/ SetDefaultDSANone
  \/ SetDefaultDSAShared
  \/ SetThisExpr

SpecStack == Init /\ [][NextStack]_vars

(***************************************************************************)
(* Region descriptors: OSSDependVisitor and EmitDependency of              *)
(* clang/lib/CodeGen/CGOmpSsRuntime.cpp.                                   *)
(*                                                                         *)
(* Types: int, pointer to T, array of Size elements of T.                  *)
(***************************************************************************)
IntTy == [kind |-> "int"]

PointerTy(T) == [kind |-> "pointer", elem |-> T]

ArrayTy(Size, T) == [kind |-> "array", size |-> Size, elem |-> T]

\* the type of an array section expression (a placeholder type)
SectionTy == [kind |-> "section"]

isPointer(T) == T.kind = "pointer"

isArray(T) == T.kind = "array"

\* the declarations of the tests task_depend2.c and task_depend_array_section.c
RegionDecls == {"x", "e", "b", "d", "a", "c", "kk", "aFix"}

DeclType(D) ==
  CASE D = "x" -> IntTy
    [] D = "e" -> ArrayTy(5, IntTy)
    [] D = "b" -> ArrayTy(5, ArrayTy(6, IntTy))
    [] D = "d" -> ArrayTy(5, ArrayTy(6, ArrayTy(7, IntTy)))
    [] D = "a" -> PointerTy(PointerTy(IntTy))
    [] D = "c" -> PointerTy(ArrayTy(5, IntTy))
    [] D = "kk" -> PointerTy(ArrayTy(10, IntTy))
    [] D = "aFix" -> ArrayTy(10, ArrayTy(10, PointerTy(IntTy)))

\* DataLayout::getTypeSizeInBits(T) / 8 of the target of the tests
RECURSIVE TypeSize(_)
TypeSize(T) ==
  CASE T.kind = "int" -> 4
    [] T.kind = "pointer" -> 8
    [] T.kind = "array" -> T.size * TypeSize(T.elem)

(***************************************************************************)
(* Dependency expressions, as IgnoreParenImpCasts shows them.  A bound of  *)
(* a section is << >> when absent and << v >> when written.                *)
(***************************************************************************)
DeclRefExpr(D) == [node |-> "DeclRefExpr", decl |-> D]

ArraySubscriptExpr(Base, Idx) ==
  [node |-> "ArraySubscriptExpr", base |-> Base, idx |-> Idx]

UnaryDeref(Base) == [node |-> "UnaryDeref", base |-> Base]

OSSArraySectionExpr(Base, LowerBound, LengthUpper, ColonLocValid, ColonForm) ==
  [node |-> "OSSArraySectionExpr", base |-> Base, LowerBound |-> LowerBound,
   LengthUpper |-> LengthUpper, ColonLocValid |-> ColonLocValid,
   ColonForm |-> ColonForm]

\* Expr::getType
RECURSIVE getType(_)
getType(E) ==
  CASE E.node = "DeclRefExpr" -> DeclType(E.decl)
    [] E.node = "OSSArraySectionExpr" -> SectionTy
    [] OTHER -> getType(E.base).elem

\* the innermost base under sections and subscripts, and their number
RECURSIVE OriginalBase(_)
OriginalBase(Base) ==
  IF Base.node \in {"OSSArraySectionExpr", "ArraySubscriptExpr"}
  THEN OriginalBase(Base.base) ELSE Base

RECURSIVE ArraySectionCount(_)
ArraySectionCount(Base) ==
  IF Base.node \in {"OSSArraySectionExpr", "ArraySubscriptExpr"}
  THEN 1 + ArraySectionCount(Base.base) ELSE 0

RECURSIVE Peel(_, _)
Peel(T, Cnt) == IF Cnt = 0 THEN T ELSE Peel(T.elem, Cnt - 1)

\* OSSArraySectionExpr::getBaseOriginalType
getBaseOriginalType(Base) ==
  Peel(getType(OriginalBase(Base)), ArraySectionCount(Base))

(***************************************************************************)
(* OSSDependVisitor                                                        *)
(***************************************************************************)
\* the visitor as constructed; Ptr is the expression whose value is the base
\* address, Abort is set where an assert or llvm_unreachable is met
OSSDependVisitor ==
  [Ptr |-> NullExpr, Starts |-> << >>, Ends |-> << >>, Dims |-> << >>,
   BaseElementTy |-> IntTy, Abort |-> FALSE]

RECURSIVE GetInnermostElementType(_)
GetInnermostElementType(Q) ==
  IF isArray(Q) THEN GetInnermostElementType(Q.elem) ELSE Q

\* the loop `while (TmpTy->isArrayType())` of both Fill functions
RECURSIVE PushArrayDims(_, _)
PushArrayDims(Dims, TmpTy) ==
  IF isArray(TmpTy) THEN PushArrayDims(Append(Dims, TmpTy.size), TmpTy.elem)
  ELSE Dims

FillBaseExprDimsAndType(V, E) ==
  [V EXCEPT !.BaseElementTy = GetInnermostElementType(getType(E)),
            !.Dims = PushArrayDims(
                       IF isPointer(getType(E)) \/ ~isArray(getType(E))
                       THEN Append(@, 1) ELSE @,
                       getType(E))]

\* the dimensions of the declared array are left out
FillDimsFromInnermostExpr_NoArrayDims(V, E) ==
  [V EXCEPT !.Dims = IF @ = << >> THEN << 1 >> ELSE @]

FillDimsFromInnermostExpr(V, E) ==
  [V EXCEPT !.Dims =
     IF isPointer(getType(E))
     THEN PushArrayDims(IF @ = << >> THEN << 1 >> ELSE @, getType(E).elem)
     ELSE PushArrayDims(@, getType(E))]

\* Idx of a section
SectionIdx(ASE) == IF ASE.LowerBound # << >> THEN ASE.LowerBound[1] ELSE 0

\* an absent length is taken as the length one
SectionDefaultEnd_One(ASE) == SectionIdx(ASE) + 1

\* IdxEnd of a section whose length and upper bound are absent and whose
\* colon is written: the extent of the dimension
SectionDefaultEnd(ASE) ==
  IF isArray(getBaseOriginalType(ASE.base)) THEN getBaseOriginalType(ASE.base).size
  ELSE 0

\* the second operand is a length in every form
SectionIdxEnd_AlwaysLength(ASE, OSSSyntax) ==
  CASE ASE.LengthUpper # << >> -> SectionIdx(ASE) + ASE.LengthUpper[1]
    [] ASE.LengthUpper = << >> /\ ~ASE.ColonLocValid -> SectionIdx(ASE) + 1
    [] OTHER -> SectionDefaultEnd(ASE)

\* IdxEnd of a section
SectionIdxEnd(ASE, OSSSyntax) ==
  CASE ASE.LengthUpper # << >> /\ (~OSSSyntax \/ ~ASE.ColonForm) ->
         SectionIdx(ASE) + ASE.LengthUpper[1]
    [] ASE.LengthUpper # << >> /\ OSSSyntax /\ ASE.ColonForm ->
         1 + ASE.LengthUpper[1]
    [] ASE.LengthUpper = << >> /\ ~ASE.ColonLocValid ->
         SectionIdx(ASE) + 1
    [] OTHER -> SectionDefaultEnd(ASE)

\* llvm_unreachable("Unhandled array type") in a section
SectionUnreachable(ASE) ==
  /\ ASE.LengthUpper = << >>
  /\ ASE.ColonLocValid
  /\ ~isArray(getBaseOriginalType(ASE.base))

\* one iteration of the first loop of VisitOSSArraySectionExpr, up to the
\* test of the pointer
SectionStep(V, ASE, OSSSyntax) ==
  [V EXCEPT !.Starts = Append(@, SectionIdx(ASE)),
            !.Ends = Append(@, SectionIdxEnd(ASE, OSSSyntax)),
            !.Abort = @ \/ SectionUnreachable(ASE)]

\* `If we see a Pointer we must to add one dimension and done`
SectionPointerDim(V, ASE) ==
  [V EXCEPT !.Dims = Append(@, IF ASE.LengthUpper # << >> THEN ASE.LengthUpper[1] ELSE 0),
            !.Abort = @ \/ ASE.LengthUpper = << >>,
            !.Ptr = ASE.base]

\* the first loop of VisitOSSArraySectionExpr; Ptr holds TmpE
RECURSIVE SectionLoop(_, _, _)
SectionLoop(V, TmpE, OSSSyntax) ==
  IF TmpE.node # "OSSArraySectionExpr" THEN [V EXCEPT !.Ptr = TmpE]
  ELSE IF isPointer(getType(TmpE.base))
  THEN SectionPointerDim(SectionStep(V, TmpE, OSSSyntax), TmpE)
  ELSE SectionLoop(SectionStep(V, TmpE, OSSSyntax), TmpE.base, OSSSyntax)

\* one iteration of the loop over ArraySubscriptExpr
SubscriptStep(V, ASE) ==
  [V EXCEPT !.Starts = Append(@, ASE.idx), !.Ends = Append(@, ASE.idx + 1)]

\* the loop over ArraySubscriptExpr of both visitors; Ptr holds TmpE
RECURSIVE SubscriptLoop(_, _)
SubscriptLoop(V, TmpE) ==
  IF TmpE.node # "ArraySubscriptExpr" THEN [V EXCEPT !.Ptr = TmpE]
  ELSE IF isPointer(getType(TmpE.base))
  THEN [SubscriptStep(V, TmpE) EXCEPT !.Dims = Append(@, 1), !.Ptr = TmpE.base]
  ELSE SubscriptLoop(SubscriptStep(V, TmpE), TmpE.base)

\* the end of both visitors: Ptr = EmitScalarExpr(TmpE) and the dimensions
\* of TmpE
FillFromPtr(V) == FillDimsFromInnermostExpr(V, V.Ptr)

\* the second loop of VisitOSSArraySectionExpr starts at the TmpE the first
\* loop left
SubscriptLoopFromPtr(V) == SubscriptLoop(V, V.Ptr)

VisitDeclRefExpr(V, E) == FillBaseExprDimsAndType([V EXCEPT !.Ptr = E], E)

VisitUnaryDeref(V, E) == FillBaseExprDimsAndType([V EXCEPT !.Ptr = E], E)

VisitOSSArraySectionExpr(V, E, OSSSyntax) ==
  FillFromPtr(SubscriptLoopFromPtr(SectionLoop(
    [V EXCEPT !.BaseElementTy =
       GetInnermostElementType(getBaseOriginalType(E.base).elem)],
    E, OSSSyntax)))

VisitArraySubscriptExpr(V, E) ==
  FillFromPtr(SubscriptLoop(
    [V EXCEPT !.BaseElementTy = GetInnermostElementType(getType(E))], E))

\* OSSDependVisitor::Visit
Visit(V, E, OSSSyntax) ==
  CASE E.node = "DeclRefExpr" -> VisitDeclRefExpr(V, E)
    [] E.node = "UnaryDeref" -> VisitUnaryDeref(V, E)
    [] E.node = "OSSArraySectionExpr" -> VisitOSSArraySectionExpr(V, E, OSSSyntax)
    [] E.node = "ArraySubscriptExpr" -> VisitArraySubscriptExpr(V, E)

(***************************************************************************)
(* EmitDependency                                                          *)
(***************************************************************************)
\* the values of dimension i with the indices taken in the order they were
\* collected
DimTriple_Unreversed(V, i) ==
  IF i < Len(V.Starts)
  THEN [size |-> V.Dims[i + 1], start |-> V.Starts[i + 1], end |-> V.Ends[i + 1]]
  ELSE [size |-> V.Dims[i + 1], start |-> 0, end |-> V.Dims[i + 1]]

\* the values of dimension i (counted from 0, as Dims is indexed) before the
\* multiplication: the loop body for i > 0 and the code after the loop for
\* i = 0 pick the same elements
DimTriple(V, i) ==
  IF i < Len(V.Starts)
  THEN [size |-> V.Dims[i + 1], start |-> V.Starts[Len(V.Starts) - i],
        end |-> V.Ends[Len(V.Starts) - i]]
  ELSE [size |-> V.Dims[i + 1], start |-> 0, end |-> V.Dims[i + 1]]

\* `if (First)`: Dim, IdxStart and IdxEnd times BaseElementSize
MulTriple(T, BaseElementSize) ==
  [size |-> T.size * BaseElementSize, start |-> T.start * BaseElementSize,
   end |-> T.end * BaseElementSize]

\* DepData after Ptr: dimension Dims.size() - 1 first, dimension 0 last
DepDataOf(V) ==
  [k \in 1..Len(V.Dims) |->
     IF k = 1 THEN MulTriple(DimTriple(V, Len(V.Dims) - k), TypeSize(V.BaseElementTy))
     ELSE DimTriple(V, Len(V.Dims) - k)]

\* what EmitDependency appends to TaskInfo, given the visitor after Visit
Emitted(E, OSSSyntax, V) ==
  [E |-> E, OSSSyntax |-> OSSSyntax, Dims |-> V.Dims, Starts |-> V.Starts,
   Ends |-> V.Ends, BaseElementSize |-> TypeSize(V.BaseElementTy),
   DepData |-> IF V.Dims = << >> THEN << >> ELSE DepDataOf(V),
   Abort |-> V.Abort \/ V.Dims = << >>]

EmitDependency(E, OSSSyntax) ==
  Emitted(E, OSSSyntax, Visit(OSSDependVisitor, E, OSSSyntax))

(***************************************************************************)
(* The dependencies Sema hands to CodeGen.                                 *)
(***************************************************************************)
\* subscripts and written bounds run over 0..MaxIdx
MaxIdx == 1
\* subscripts, sections and dereferences written on one symbol
MaxSteps == 3

Bounds == {<< >>} \cup {<< v >> : v \in 0..MaxIdx}

\* what can be written on E: a dereference or a subscript on a pointer or an
\* array; a subscript on a section is a section without colon
StepsOn(E) ==
  IF E.node # "OSSArraySectionExpr"
  THEN IF isPointer(getType(E)) \/ isArray(getType(E))
       THEN {UnaryDeref(E)}
            \cup {ArraySubscriptExpr(E, i) : i \in 0..MaxIdx}
            \cup {OSSArraySectionExpr(E, l, u, TRUE, f) :
                    l \in Bounds,
                    u \in IF isArray(getType(E)) THEN Bounds ELSE Bounds \ {<< >>},
                    f \in BOOLEAN}
       ELSE {}
  ELSE IF isArray(getBaseOriginalType(E))
  THEN {OSSArraySectionExpr(E, << i >>, << >>, FALSE, TRUE) : i \in 0..MaxIdx}
       \cup {OSSArraySectionExpr(E, l, u, TRUE, f) :
               l \in Bounds, u \in Bounds, f \in BOOLEAN}
  ELSE IF isPointer(getBaseOriginalType(E))
  THEN {OSSArraySectionExpr(E, << i >>, << >>, FALSE, TRUE) : i \in 0..MaxIdx}
       \cup {OSSArraySectionExpr(E, l, u, TRUE, f) :
               l \in Bounds, u \in Bounds \ {<< >>}, f \in BOOLEAN}
  ELSE {}

RECURSIVE DependencyExprs(_)
DependencyExprs(K) ==
  IF K = 0 THEN {DeclRefExpr(D) : D \in RegionDecls}
  ELSE DependencyExprs(K - 1) \cup UNION {StepsOn(E) : E \in DependencyExprs(K - 1)}

\* every section is written with a colon (the `;` form is OmpSs syntax only)
RECURSIVE AllColonForm(_)
AllColonForm(E) ==
  CASE E.node = "DeclRefExpr" -> TRUE
    [] E.node = "OSSArraySectionExpr" -> E.ColonForm /\ AllColonForm(E.base)
    [] OTHER -> AllColonForm(E.base)

\* CGOmpSsRuntime emits a dependency of a depend clause
EmitDependDependency ==
  /\ region = NoRegion
  /\ \E E \in DependencyExprs(MaxSteps) :
       /\ AllColonForm(E)
       /\ region' = EmitDependency(E, FALSE)
  /\ UNCHANGED << Stack, pc, last, nitems, diagnosed, dep, pushed, scan, single, lower >>

\* CGOmpSsRuntime emits a dependency of an in, out, ... clause
EmitOSSDependency ==
  /\ region = NoRegion
  /\ \E E \in DependencyExprs(MaxSteps) : region' = EmitDependency(E, TRUE)
  /\ UNCHANGED << Stack, pc, last, nitems, diagnosed, dep, pushed, scan, single, lower >>

NextRegion == EmitDependDependency \/ EmitOSSDependency

SpecRegion == Init /\ [][NextRegion]_vars

(***************************************************************************)
(* OmpSsRegionAnalysisPass.  A function is one basic block, a sequence of  *)
(* instructions; an instruction is named by its position, so that one      *)
(* instruction dominates another when its position is smaller.  The        *)
(* values are the positions, the argument of the function and a global.    *)
(***************************************************************************)
\* instructions of a function
MaxInsts == 4

\* the argument of the function, a value that is no instruction
Argument == 0

\* a global variable, a value that is neither instruction nor argument
Global == -1

\* `token none`, the token of no entry
TokenNone == 0

\* dyn_cast<Instruction>(V) succeeds
isInstruction(V) == V > 0

\* call token @llvm.directive.region.entry() with its DSA bundles
RegionEntry(DSA) == [op |-> "directive_region_entry", DSA |-> DSA]

\* call void @llvm.directive.region.exit(token): the position of the entry
\* whose token is used, or TokenNone
RegionExit(Token) == [op |-> "directive_region_exit", Token |-> Token]

\* call void @llvm.directive.marker(): a taskwait
DirectiveMarker == [op |-> "directive_marker"]

\* any instruction that is not an intrinsic call, with its operands
Instruction(Operands) == [op |-> "instruction", Operands |-> Operands]

\* a call of any other intrinsic, with its operands
IntrinsicInst(Operands) == [op |-> "intrinsic", Operands |-> Operands]

PositionsOf(F, op) == {p \in 1..Len(F) : F[p].op = op}

\* the values an instruction added to F can use: the argument, the global
\* and the instructions before it
ValuesOf(F) == {Argument, Global} \cup PositionsOf(F, "instruction")

\* at most one value
AtMostOne(S) == {{}} \cup {{v} : v \in S}

\* the instructions that can follow F
InstructionsAfter(F) ==
  {RegionEntry(DSA) : DSA \in AtMostOne(ValuesOf(F))}
    \cup {RegionExit(Token) : Token \in {TokenNone} \cup PositionsOf(F, "directive_region_entry")}
    \cup {DirectiveMarker}
    \cup {Instruction(Operands) : Operands \in AtMostOne(ValuesOf(F))}
    \cup {IntrinsicInst(Operands) : Operands \in AtMostOne(ValuesOf(F))}

RECURSIVE FunctionsOfLen(_)
FunctionsOfLen(n) ==
  IF n = 0 THEN {<< >>}
  ELSE UNION {{Append(F, I) : I \in InstructionsAfter(F)} : F \in FunctionsOfLen(n - 1)}

Functions == UNION {FunctionsOfLen(n) : n \in 1..MaxInsts}

\* Value::users of the token of the entry at position p
EntryUsers(F, p) ==
  {q \in 1..Len(F) : F[q].op = "directive_region_exit" /\ F[q].Token = p}

\* Value::users of the instruction at position p: the instructions it is
\* an operand of and the entries it is in a bundle of
Users(F, p) ==
  {q \in 1..Len(F) :
     \/ F[q].op \in {"instruction", "intrinsic"} /\ p \in F[q].Operands
     \/ F[q].op = "directive_region_entry" /\ p \in F[q].DSA}

\* OrderedInstructions::dominates in one basic block
dominates(A, B) == A < B

\* valueInDSABundles: Shared, Private and Firstprivate are kept as one set
valueInDSABundles(DSAInfo, V) == V \in DSAInfo

\* llvm_unreachable and a failed assert end the compilation
llvm_unreachable(sc, Msg) == [sc EXCEPT !.Abort = Msg]

\* the end of an iteration of the instruction loop
NextInstruction(sc) == [sc EXCEPT !.II = @ + 1]

\* struct Task of getOmpSsFunctionInfo
Task(Entry, Exit, DSAInfo) ==
  [Entry |-> Entry, Exit |-> Exit, DSAInfo |-> DSAInfo,
   UsesBeforeEntry |-> {}, UsesAfterExit |-> {}]

\* the branch of directive_region_entry
VisitRegionEntry(sc) ==
  IF Cardinality(EntryUsers(sc.F, sc.II)) # 1
  THEN llvm_unreachable(sc, "Task entry has more than one user.")
  ELSE LET Exit == CHOOSE q \in EntryUsers(sc.F, sc.II) : TRUE
       IN NextInstruction(
            [sc EXCEPT !.TPO = Append(@, [Entry |-> sc.II, Depth |-> Len(sc.Stack), Idx |-> 0]),
                       !.Stack = Append(@, Task(sc.II, Exit, sc.F[sc.II].DSA))])

\* TPO[&*Entry].Idx = Idx
SetIdx(TPO, Entry, Idx) ==
  [k \in 1..Len(TPO) |-> IF TPO[k].Entry = Entry THEN [TPO[k] EXCEPT !.Idx = Idx] ELSE TPO[k]]

\* the exit branch that puts the task in front of the tasks closed before
VisitRegionExit_Preorder(sc) ==
  IF sc.Stack = << >>
  THEN llvm_unreachable(sc, "Task exit hit without and entry.")
  ELSE LET T == sc.Stack[Len(sc.Stack)]
       IN NextInstruction(
            [sc EXCEPT !.TPO = SetIdx(@, T.Entry, Len(sc.PostOrder)),
                       !.PostOrder = << T >> \o @,
                       !.Stack = SubSeq(@, 1, Len(@) - 1)])

\* the branch of directive_region_exit
VisitRegionExit(sc) ==
  IF sc.Stack = << >>
  THEN llvm_unreachable(sc, "Task exit hit without and entry.")
  ELSE LET T == sc.Stack[Len(sc.Stack)]
       IN NextInstruction(
            [sc EXCEPT !.TPO = SetIdx(@, T.Entry, Len(sc.PostOrder)),
                       !.PostOrder = Append(@, T),
                       !.Stack = SubSeq(@, 1, Len(@) - 1)])

\* the branch of directive_marker
VisitDirectiveMarker(sc) ==
  NextInstruction([sc EXCEPT !.TwPostOrder = Append(@, sc.II)])

\* the other intrinsic calls
VisitIntrinsicInst(sc) == NextInstruction(sc)

\* the operands of I that are recorded in UsesBeforeEntry of T: the
\* instructions that dominate the entry, and the arguments
OperandsBeforeEntry(sc, T) ==
  {V \in sc.F[sc.II].Operands :
     V = Argument \/ (isInstruction(V) /\ dominates(V, T.Entry))}

\* the users of I that the exit of T dominates
UsersAfterExit(sc, T) == {U \in Users(sc.F, sc.II) : dominates(T.Exit, U)}

\* only the arguments are looked up in the DSA sets
OperandNotFound_ArgumentsOnly(sc, T) ==
  /\ ~sc.DisableChecks
  /\ Argument \in OperandsBeforeEntry(sc, T)
  /\ ~valueInDSABundles(T.DSAInfo, Argument)

\* `Value supposed to be inside task entry OperandBundle not found.`
OperandNotFound(sc, T) ==
  /\ ~sc.DisableChecks
  /\ \E V \in OperandsBeforeEntry(sc, T) : ~valueInDSABundles(T.DSAInfo, V)

\* the check of the users is made whatever the option says
UsedAfterBody_Always(sc, T) == UsersAfterExit(sc, T) # {}

\* `Value inside the task body used after it.`
UsedAfterBody(sc, T) ==
  /\ ~sc.DisableChecks
  /\ UsersAfterExit(sc, T) # {}

\* the uses of I recorded in the task on top of the stack
RecordUses(sc, T) ==
  [sc EXCEPT !.Stack[Len(sc.Stack)] =
     [T EXCEPT !.UsesBeforeEntry = @ \cup OperandsBeforeEntry(sc, T),
               !.UsesAfterExit = @ \cup (IF UsersAfterExit(sc, T) # {} THEN {sc.II} ELSE {})]]

\* the branch of the other instructions
VisitInstruction(sc) ==
  IF sc.Stack = << >> THEN NextInstruction(sc)
  ELSE LET T == sc.Stack[Len(sc.Stack)]
       IN CASE OperandNotFound(sc, T) ->
                 llvm_unreachable(sc, "Value supposed to be inside task entry OperandBundle not found.")
            [] ~OperandNotFound(sc, T) /\ UsedAfterBody(sc, T) ->
                 llvm_unreachable(sc, "Value inside the task body used after it.")
            [] OTHER -> NextInstruction(RecordUses(sc, T))

\* the scan is at an instruction
Scanning == scan.Abort = "none" /\ scan.II \in 1..Len(scan.F)

\* OmpSsRegionAnalysisPass::runOnFunction, up to the first instruction
runOnFunction ==
  /\ scan = NoScan
  /\ \E F \in Functions, DisableChecks \in BOOLEAN :
       scan' = [NoScan EXCEPT !.F = F, !.DisableChecks = DisableChecks, !.II = 1]
  /\ UNCHANGED << Stack, pc, last, nitems, diagnosed, dep, pushed, region, single, lower >>

ScanStep(op, Result) ==
  /\ scan.F[scan.II].op = op
  /\ scan' = Result
  /\ UNCHANGED << Stack, pc, last, nitems, diagnosed, dep, pushed, region, single, lower >>

ScanRegionEntry ==
  /\ Scanning
  /\ ScanStep("directive_region_entry", VisitRegionEntry(scan))

ScanRegionExit ==
  /\ Scanning
  /\ ScanStep("directive_region_exit", VisitRegionExit(scan))

ScanDirectiveMarker ==
  /\ Scanning
  /\ ScanStep("directive_marker", VisitDirectiveMarker(scan))

ScanIntrinsicInst ==
  /\ Scanning
  /\ ScanStep("intrinsic", VisitIntrinsicInst(scan))

ScanInstruction ==
  /\ Scanning
  /\ ScanStep("instruction", VisitInstruction(scan))

NextScan ==
  \/ runOnFunction
  \/ ScanRegionEntry
  \/ ScanRegionExit
  \/ ScanDirectiveMarker
  \/ ScanIntrinsicInst
  \/ ScanInstruction

SpecScan == Init /\ [][NextScan]_vars

(***************************************************************************)
(* The parser hands an if, final, cost or priority clause to Sema.         *)
(***************************************************************************)
SingleExprClause ==
  /\ \E Kind \in SingleExprKinds, Expr \in SingleExprs :
       single' \in ActOnOmpSsSingleExprClause(Kind, Expr)
  /\ UNCHANGED << Stack, pc, last, nitems, diagnosed, dep, pushed, region, scan, lower >>

NextSingle == SingleExprClause

SpecSingle == Init /\ [][NextSingle]_vars

(***************************************************************************)
(* The lowering of a task to the Nanos6 runtime (OmpSsTransform.cpp).      *)
(* The values of a task are numbered: the first NumPointers are pointers   *)
(* (the symbols of the DSA sets), the others are integers (the captured    *)
(* sizes of variable length arrays).  A task has each symbol in at most    *)
(* one DSA set.                                                            *)
(***************************************************************************)
NumPointers == 2

NumScalars == 2

\* the tasks of a module
MaxTasks == 1

\* the dependencies of a task
MaxDeps == 2

Pointers == 1..NumPointers

Scalars == (NumPointers + 1)..(NumPointers + NumScalars)

\* Nanos6MultidepFactory::MAX_DEP_DIMS
MAX_DEP_DIMS == 8

\* SetVector: the sequences without repetition over S
SetVectors(S) ==
  UNION {{Q \in [1..n -> S] : \A i, j \in 1..n : Q[i] = Q[j] => i = j} :
           n \in 0..Cardinality(S)}

Elements(Q) == {Q[i] : i \in 1..Len(Q)}

\* DependInfo: the kind of the list it is in, the number of elements of the
\* struct its compute_dep function returns (the base and three values for
\* every dimension), and the symbol of the base
DependInfo(DepType, NumElements, DepBaseDSA) ==
  [DepType |-> DepType, NumElements |-> NumElements, DepBaseDSA |-> DepBaseDSA]

\* the lists of TaskDependsInfo the model draws from, by the name
\* unpackDepsCallToRT registers them under
DepTypes == {"read", "reduction"}

\* the numbers of dimensions of a dependency: around the least and the
\* greatest the runtime has a function for
DimCounts == {0, 1, MAX_DEP_DIMS, MAX_DEP_DIMS + 1}

\* a dependency of a task; DepBaseDSA is told apart for reductions only,
\* which are on a shared symbol
DependInfosOf(Shared) ==
  {DependInfo("read", 1 + 3 * N, 0) : N \in DimCounts}
  \cup {DependInfo("reduction", 1 + 3 * N, V) : N \in DimCounts, V \in Elements(Shared)}

\* the dependencies of a task, by the order their calls are emitted in:
\* reductions last
DependsInfos(Shared) ==
  {D \in SeqsOf(DependInfosOf(Shared), 0, MaxDeps) :
     \A i, j \in 1..Len(D) :
       (i < j /\ D[i].DepType = "reduction") => D[j].DepType = "reduction"}

\* TaskInfo: the DSA sets, the captured values, the symbols that are
\* variable length arrays, whether there is a cost clause, the dependencies
TaskInfo(Shared, Private, Firstprivate, CapturedInfo, VLADimsInfo, Cost, DependsInfo) ==
  [Shared |-> Shared, Private |-> Private, Firstprivate |-> Firstprivate,
   CapturedInfo |-> CapturedInfo, VLADimsInfo |-> VLADimsInfo, Cost |-> Cost,
   DependsInfo |-> DependsInfo]

\* the DSA sets of a task: no symbol is in two of them
DSAInfos ==
  {X \in SetVectors(Pointers) \X SetVectors(Pointers) \X SetVectors(Pointers) :
     /\ Elements(X[1]) \cap Elements(X[2]) = {}
     /\ Elements(X[1]) \cap Elements(X[3]) = {}
     /\ Elements(X[2]) \cap Elements(X[3]) = {}}

TaskInfosOf(S, P, F) ==
  {TaskInfo(S, P, F, C, VLA, Cost, D) :
     C \in SetVectors(Scalars),
     VLA \in AtMostOne(Elements(P) \cup Elements(F)),
     Cost \in BOOLEAN,
     D \in DependsInfos(S)}

TaskInfos == UNION {TaskInfosOf(X[1], X[2], X[3]) : X \in DSAInfos}

\* MapVector: the pairs in the order the keys were inserted
MapVectorLookup(M, V) ==
  IF \E k \in 1..Len(M) : M[k].first = V
  THEN M[CHOOSE k \in 1..Len(M) : M[k].first = V].second
  ELSE 0

\* M[V] = Idx
MapVectorAssign(M, V, Idx) ==
  IF \E k \in 1..Len(M) : M[k].first = V
  THEN [k \in 1..Len(M) |-> IF M[k].first = V THEN [M[k] EXCEPT !.second = Idx] ELSE M[k]]
  ELSE Append(M, [first |-> V, second |-> Idx])

\* V->getType(), and the type a pointer points to
TypeOf(V) == IF V \in Pointers THEN "pointer" ELSE "i64"

getPointerElementType(V) == "element"

\* one loop of createTaskArgsType over the values Vs; A is the member types
\* and the index map so far, the next index is the number of members
RECURSIVE TaskArgsLoop(_, _, _, _, _)
TaskArgsLoop(A, Vs, K, VLADimsInfo, InBlock) ==
  IF K > Len(Vs) THEN A
  ELSE TaskArgsLoop(
         [TaskArgsMemberTy |->
            Append(A.TaskArgsMemberTy,
                   [V |-> Vs[K],
                    Ty |-> IF InBlock /\ Vs[K] \notin VLADimsInfo
                           THEN getPointerElementType(Vs[K]) ELSE TypeOf(Vs[K])]),
          StructToIdxMap |->
            MapVectorAssign(A.StructToIdxMap, Vs[K], Len(A.TaskArgsMemberTy))],
         Vs, K + 1, VLADimsInfo, InBlock)

\* the argument block with the private symbols first
createTaskArgsType_PrivateFirst(TI) ==
  TaskArgsLoop(
    TaskArgsLoop(
      TaskArgsLoop(
        TaskArgsLoop([TaskArgsMemberTy |-> << >>, StructToIdxMap |-> << >>],
                     TI.Private, 1, TI.VLADimsInfo, TRUE),
        TI.Shared, 1, TI.VLADimsInfo, FALSE),
      TI.Firstprivate, 1, TI.VLADimsInfo, TRUE),
    TI.CapturedInfo, 1, TI.VLADimsInfo, FALSE)

\* createTaskArgsType: the member types of the argument block and the map
\* from the values to the member indices
createTaskArgsType(TI) ==
  TaskArgsLoop(
    TaskArgsLoop(
      TaskArgsLoop(
        TaskArgsLoop([TaskArgsMemberTy |-> << >>, StructToIdxMap |-> << >>],
                     TI.Shared, 1, TI.VLADimsInfo, FALSE),
        TI.Private, 1, TI.VLADimsInfo, TRUE),
      TI.Firstprivate, 1, TI.VLADimsInfo, TRUE),
    TI.CapturedInfo, 1, TI.VLADimsInfo, FALSE)

\* what an outline function passes for V: the member of the argument block
\* it addresses, whether it loads it, whether it is a translated reduction
\* address
Unpacked(V, Member, Load) == [V |-> V, Member |-> Member, Load |-> Load, Translated |-> FALSE]

\* one loop of unpackDSAsWithVLADims
RECURSIVE UnpackLoop(_, _, _, _, _, _)
UnpackLoop(UnpackedList, Vs, K, StructToIdxMap, VLADimsInfo, InBlock) ==
  IF K > Len(Vs) THEN UnpackedList
  ELSE UnpackLoop(
         Append(UnpackedList,
                Unpacked(Vs[K], MapVectorLookup(StructToIdxMap, Vs[K]),
                         ~InBlock \/ Vs[K] \in VLADimsInfo)),
         Vs, K + 1, StructToIdxMap, VLADimsInfo, InBlock)

\* the unpacking that takes the captured values first
unpackDSAsWithVLADims_CapturedFirst(TI, StructToIdxMap) ==
  UnpackLoop(
    UnpackLoop(
      UnpackLoop(
        UnpackLoop(<< >>, TI.CapturedInfo, 1, StructToIdxMap, TI.VLADimsInfo, FALSE),
        TI.Shared, 1, StructToIdxMap, TI.VLADimsInfo, FALSE),
      TI.Private, 1, StructToIdxMap, TI.VLADimsInfo, TRUE),
    TI.Firstprivate, 1, StructToIdxMap, TI.VLADimsInfo, TRUE)

\* unpackDSAsWithVLADims: UnpackedList
unpackDSAsWithVLADims(TI, StructToIdxMap) ==
  UnpackLoop(
    UnpackLoop(
      UnpackLoop(
        UnpackLoop(<< >>, TI.Shared, 1, StructToIdxMap, TI.VLADimsInfo, FALSE),
        TI.Private, 1, StructToIdxMap, TI.VLADimsInfo, TRUE),
      TI.Firstprivate, 1, StructToIdxMap, TI.VLADimsInfo, TRUE),
    TI.CapturedInfo, 1, StructToIdxMap, TI.VLADimsInfo, FALSE)

\* translateReductionUnpackedDSA on UnpackParams[StructToIdxMap[DepBaseDSA]],
\* for the reductions from the K-th dependency on
RECURSIVE TranslateReductions(_, _, _, _)
TranslateReductions(UnpackParams, DependsInfo, K, StructToIdxMap) ==
  IF K > Len(DependsInfo) THEN UnpackParams
  ELSE TranslateReductions(
         IF DependsInfo[K].DepType = "reduction"
         THEN [UnpackParams EXCEPT
                 ![MapVectorLookup(StructToIdxMap, DependsInfo[K].DepBaseDSA) + 1].Translated = TRUE]
         ELSE UnpackParams,
         DependsInfo, K + 1, StructToIdxMap)

\* olCallToUnpack: the arguments of the call of the unpacked function, the
\* parameters the outline function has after task_args left out
olCallToUnpack(TI, StructToIdxMap, IsTaskFunc) ==
  LET UnpackParams == unpackDSAsWithVLADims(TI, StructToIdxMap)
  IN IF IsTaskFunc
     THEN TranslateReductions(UnpackParams, TI.DependsInfo, 1, StructToIdxMap)
     ELSE UnpackParams

\* the parameters of the unpacked functions: TaskTypeList and TaskNameList,
\* one for every entry of the index map in its order
TaskTypeListOf(StructToIdxMap) ==
  [k \in 1..Len(StructToIdxMap) |-> StructToIdxMap[k].first]

\* the name of a dependency registration function, as its parts
FullName(Name, Ndims) == [Name |-> Name, Ndims |-> Ndims]

\* a failed assert ends the compilation unless the build has NDEBUG
assert(L, Cond) == IF Cond \/ L.NDEBUG THEN L ELSE [L EXCEPT !.Abort = TRUE]

\* Nanos6MultidepFactory::getMultidepFuncCallee: the function is declared
\* when a name is asked for the first time
getMultidepFuncCallee(L, Name, Ndims) ==
  IF FullName(Name, Ndims) \in L.DepNameToFuncCalleeMap THEN L
  ELSE LET A == assert(L, Ndims <= MAX_DEP_DIMS)
       IN IF A.Abort THEN A
          ELSE [A EXCEPT !.DepNameToFuncCalleeMap = @ \cup {FullName(Name, Ndims)}]

\* the body of the loops of unpackCallToRTOfType and unpackCallToRTOfReduction:
\* the call built for one dependency.  Leading counts the arguments up to
\* the base address, Values the arguments after it.
unpackCallToRT(L, DI) ==
  LET A == assert(L, DI.NumElements > 1)
      NumDims == (DI.NumElements - 1) \div 3
      G == getMultidepFuncCallee(A, DI.DepType, NumDims)
  IN IF A.Abort THEN A
     ELSE IF G.Abort THEN G
     ELSE [G EXCEPT !.DepCalls =
             Append(@, [Callee |-> FullName(DI.DepType, NumDims),
                        Leading |-> IF DI.DepType = "reduction" THEN 6 ELSE 4,
                        Values |-> DI.NumElements - 1])]

\* unpackDepsCallToRT: the calls for every dependency of the task
RECURSIVE unpackDepsCallToRT(_, _, _)
unpackDepsCallToRT(L, DependsInfo, K) ==
  IF K > Len(DependsInfo) \/ L.Abort THEN L
  ELSE unpackDepsCallToRT(unpackCallToRT(L, DependsInfo[K]), DependsInfo, K + 1)

\* the fields of nanos6_task_implementation_info_t in the order of the
\* struct type
Nanos6TaskImplInfo ==
  << "device_type_id", "run", "get_constraints", "task_label",
     "declaration_source", "run_wrapper" >>

\* the constants a record is initialized with
ConstantInt == [kind |-> "int", name |-> "0"]

ConstantPointerNull == [kind |-> "null", name |-> ""]

FunctionPtr(name) == [kind |-> "function", name |-> name]

Nanos6TaskLocStr == [kind |-> "string", name |-> "file:line:col"]

\* the initializer of implementations_var: ConstantStruct::get takes the
\* values of the fields in the order of the struct type
TaskImplInfoVarOf(OlTaskFuncVar, OlConstraintsFuncVar) ==
  << ConstantInt,
     OlTaskFuncVar,
     ConstantPointerNull,
     OlConstraintsFuncVar,
     Nanos6TaskLocStr,
     ConstantPointerNull >>

\* lowerTask: L is the pass before the task TI is lowered
lowerTaskOf(L, TI) ==
  LET T == createTaskArgsType(TI)
      D == unpackDepsCallToRT([L EXCEPT !.DepCalls = << >>], TI.DependsInfo, 1)
      OlConstraintsFuncVar ==
        IF TI.Cost THEN FunctionPtr("nanos6_ol_constraints") ELSE ConstantPointerNull
      Emitted0 ==
        [D EXCEPT !.TI = TI,
                  !.TaskArgsTy = T.TaskArgsMemberTy,
                  !.TaskArgsToStructIdxMap = T.StructToIdxMap,
                  !.TaskTypeList = TaskTypeListOf(T.StructToIdxMap),
                  !.OlTaskCall = olCallToUnpack(TI, T.StructToIdxMap, TRUE),
                  !.OlDepsCall = << >>, !.OlConstraintsCall = << >>,
                  !.TaskImplInfoVar = << >>]
  IN IF D.Abort THEN Emitted0
     ELSE [Emitted0 EXCEPT
             !.OlDepsCall = olCallToUnpack(TI, T.StructToIdxMap, FALSE),
             !.OlConstraintsCall =
               IF TI.Cost THEN olCallToUnpack(TI, T.StructToIdxMap, FALSE) ELSE << >>,
             !.TaskImplInfoVar =
               TaskImplInfoVarOf(FunctionPtr("nanos6_ol_task_region"), OlConstraintsFuncVar),
             !.taskNum = @ + 1]

\* OmpSs::runOnModule, up to the first task: the build of the compiler and
\* the number of tasks the analysis found
runOnModule ==
  /\ lower = NoLower
  /\ \E NDEBUG \in BOOLEAN, NumTasks \in 1..MaxTasks :
       lower' = [NoLower EXCEPT !.Initialized = TRUE, !.NDEBUG = NDEBUG,
                                !.NumTasks = NumTasks]
  /\ UNCHANGED << Stack, pc, last, nitems, diagnosed, dep, pushed, region, scan, single >>

\* OmpSs::lowerTask on the next task of PostOrder
lowerTask ==
  /\ lower.Initialized
  /\ ~lower.Abort
  /\ lower.taskNum < lower.NumTasks
  /\ \E TI \in TaskInfos : lower' = lowerTaskOf(lower, TI)
  /\ UNCHANGED << Stack, pc, last, nitems, diagnosed, dep, pushed, region, scan, single >>

NextLower == runOnModule \/ lowerTask

SpecLower == Init /\ [][NextLower]_vars

(***************************************************************************)
(* Properties.  A state right after a handler shows in `last` what the     *)
(* handler was given (pre: the innermost scope before it ran) and what it  *)
(* produced; the scopes of the enclosing constructs are in Stack.          *)
(***************************************************************************)
AfterBodyWalk == last.op = "ActOnOmpSsExecutableDirective"

AfterClauseWalk == last.op = "ActOnOmpSsAfterClauseGathering"

\* the body just walked refers to V
RefersTo(V) == \E k \in 1..Len(last.Body) : last.Body[k] = Ref(V)

\* the number of references to V in the body just walked
NumRefersTo(V) == Cardinality({k \in 1..Len(last.Body) : last.Body[k] = Ref(V)})

\* the number of entries of the list L that name V
Occurrences(L, V) == Cardinality({i \in 1..Len(L) : L[i].decl = V})

InList(L, V) == Occurrences(L, V) > 0

HasAttr(Scope, V, Attrs) ==
  V \in DOMAIN Scope.SharingMap /\ Scope.SharingMap[V].Attributes \in Attrs

\* V is named in a clause the programmer wrote on the construct of Scope
ExplicitIn(Scope, V, Attrs) ==
  HasAttr(Scope, V, Attrs) /\ Scope.SharingMap[V].RefExpr.site = "clause"

\* the enclosing constructs, innermost last
Enclosing == 1..(Len(Stack) - 1)

\* the nearest enclosing construct that does not give V the attribute shared
\* (0 when every enclosing construct does)
NearestNotShared(V) ==
  LET Js == {j \in Enclosing : ~HasAttr(Stack[j], V, {"shared"})}
  IN IF Js = {} THEN 0 ELSE CHOOSE j \in Js : \A i \in Js : i <= j

\* that construct gives V a private or firstprivate attribute that is not ignored
InheritsFirstprivate(V) ==
  LET j == NearestNotShared(V)
  IN /\ j > 0
     /\ HasAttr(Stack[j], V, {"private", "firstprivate"})
     /\ ~Stack[j].SharingMap[V].Ignore

DiagsFor(kind, V) == Occurrences(SelectSeq(last.Diags, LAMBDA d : d.kind = kind), V)

\* the outcomes of the body walk for V
BodyShared(V) ==
  InList(last.ImplicitShared, V) /\ ~InList(last.ImplicitFirstprivate, V)

BodyFirstprivate(V) ==
  InList(last.ImplicitFirstprivate, V) /\ ~InList(last.ImplicitShared, V)

BodyDiagnosed(V) ==
  /\ ~InList(last.ImplicitFirstprivate, V) /\ ~InList(last.ImplicitShared, V)
  /\ DiagsFor("err_oss_not_defined_dsa_when_default_none", V) > 0

\* V is referenced in the body of a nested construct that gives V no
\* attribute, and an enclosing construct names V in a shared clause
C1_Case(V) ==
  /\ AfterBodyWalk
  /\ RefersTo(V)
  /\ V \notin DOMAIN last.pre.SharingMap
  /\ \E j \in Enclosing : ExplicitIn(Stack[j], V, {"shared"})

C2_Case(V) ==
  /\ AfterBodyWalk
  /\ RefersTo(V)
  /\ V \notin DOMAIN last.pre.SharingMap
  /\ \E j \in Enclosing :
       /\ ExplicitIn(Stack[j], V, {"private", "firstprivate"})
       /\ ~Stack[j].SharingMap[V].Ignore

\* C2: a variable with an explicit, non-ignored private or firstprivate
\* attribute in some enclosing construct, at any nesting distance, and no
\* attribute in the current construct is classified implicit firstprivate by
\* the body walk.
C2_InheritFirstprivate == \A V \in Vars : C2_Case(V) => BodyFirstprivate(V)

\* the variable at the base of a clause expression
RECURSIVE BaseOf(_)
BaseOf(E) == IF E.node = "ref" THEN E.decl ELSE BaseOf(E.base)

\* V is the base symbol of an expression of a clause of the given kind
BaseIn(kind, V) ==
  \E c \in 1..Len(last.InClauses) :
    /\ last.InClauses[c].kind = kind
    /\ \E e \in 1..Len(last.InClauses[c].exprs) : BaseOf(last.InClauses[c].exprs[e]) = V

C3_Case(V) == AfterClauseWalk /\ BaseIn("depend", V) /\ BaseIn("reduction", V)

\* C3: a variable that is the base symbol of an expression of a depend clause
\* and of an expression of a reduction clause of one construct is reported,
\* whichever clause comes first and whether or not the variable is also named
\* in a shared, private or firstprivate clause of the construct.
C3_ConflictReported ==
  \A V \in Vars :
    C3_Case(V) => DiagsFor("err_oss_reduction_depend_conflict", V) > 0

\* C4: if a validation error was diagnosed while the clauses or the body of a
\* construct were analysed, ActOnOmpSsExecutableDirective returns an error
\* instead of a directive.
C4_ErrorResult ==
  (AfterBodyWalk /\ diagnosed[Len(diagnosed)]) => last.Res = "StmtError"

\* the kinds that name a dependency
BaseKinds == OmpSsDependClauseKind \ {"weak", "unknown"}

NumBaseKinds(DepKinds) ==
  Cardinality({i \in 1..Len(DepKinds) : DepKinds[i] \in BaseKinds})

\* the list pairs inoutset or mutexinoutset with weak, or the two with each other
PairsSetKind(DepKinds) ==
  /\ Len(DepKinds) = 2
  /\ \/ /\ \E i \in 1..2 : DepKinds[i] \in {"inoutset", "mutexinoutset"}
        /\ \E i \in 1..2 : DepKinds[i] = "weak"
     \/ {DepKinds[1], DepKinds[2]} = {"inoutset", "mutexinoutset"}

AfterDependClause == dep.Kind # "unknown"

\* C5: the validation of the dependency kinds accepts a list only if it holds
\* exactly one base kind and at most one weak, and rejects with a diagnostic
\* every list that pairs inoutset or mutexinoutset with weak or with each other.
C5_KindsValidated ==
  AfterDependClause =>
    /\ dep.Res # "null" =>
         NumBaseKinds(dep.DepKinds) = 1 /\ Count(dep.DepKinds, "weak") <= 1
    /\ PairsSetKind(dep.DepKinds) => dep.Res = "null" /\ dep.Diags # << >>

\* the dependency kinds that the clause kinds(items) denotes
KindsOfDepend(DepKinds) ==
  ActOnOmpSsVarListClause_Depend("depend", dep.VarList, DepKinds).DepKindsOrdered

\* C6: concurrent(x) denotes the dependency kind of depend(mutexinoutset: x),
\* and commutative(x) that of depend(inoutset: x).
C6_KeywordKinds ==
  /\ dep.Kind = "concurrent" => dep.DepKindsOrdered = KindsOfDepend(<< "mutexinoutset" >>)
  /\ dep.Kind = "commutative" => dep.DepKindsOrdered = KindsOfDepend(<< "inoutset" >>)

\* the places of an expression where variables are referred to: in an index
\* position (a subscript index, a bound or length of a section, a size of a
\* shape), as the base of a dereference, member access, subscript, section or
\* shape, or plainly
RECURSIVE Positions(_, _), PositionsAll(_, _)
Positions(E, pos) ==
  IF E.node = "ref" THEN {<< E.decl, pos >>}
  ELSE Positions(E.base, IF pos = "index" THEN "index"
                         ELSE IF E.base.node = "ref" THEN "base" ELSE "plain")
       \cup PositionsAll(E.idx, 1)

PositionsAll(Es, K) ==
  IF K > Len(Es) THEN {}
  ELSE Positions(Es[K], "index") \cup PositionsAll(Es, K + 1)

\* the places in the depend and reduction clauses just walked
ExprPositions(Es) == UNION {Positions(Es[e], "plain") : e \in 1..Len(Es)}

ClausePositions ==
  UNION {ExprPositions(last.InClauses[c].exprs) : c \in 1..Len(last.InClauses)}

InIndex(V) == << V, "index" >> \in ClausePositions

\* V appears as a plain reference or as a base that is no pointer
PlainOrNonPointerBase(V) ==
  \/ << V, "plain" >> \in ClausePositions
  \/ << V, "base" >> \in ClausePositions /\ ~isPointerType(V)

PointerBase(V) == << V, "base" >> \in ClausePositions /\ isPointerType(V)

C7_Case(V) == AfterClauseWalk /\ V \notin DOMAIN last.pre.SharingMap /\ InIndex(V)

\* C7 as stated: a variable with no explicit attribute that is reached in an
\* index position is firstprivate after the clause walk, also when it appears
\* as a plain or non-pointer base elsewhere in the clauses.
C7_IndexFirstprivate ==
  \A V \in Vars : C7_Case(V) => HasAttr(Top, V, {"firstprivate"})

\* C7, amended: a variable with no explicit attribute that is reached in an
\* index position is firstprivate after the clause walk, unless it also
\* appears in the depend and reduction clauses of the construct as a plain
\* reference or as a non-pointer base: then, in either order, it is shared.
C7_IndexFirstprivateUnlessBase ==
  \A V \in Vars :
    C7_Case(V) =>
      IF PlainOrNonPointerBase(V)
      THEN HasAttr(Top, V, {"shared"}) /\ InList(last.ImplicitShared, V)
           /\ ~InList(last.ImplicitFirstprivate, V)
      ELSE HasAttr(Top, V, {"firstprivate"}) /\ InList(last.ImplicitFirstprivate, V)
           /\ ~InList(last.ImplicitShared, V)

\* an index seen first, then the same variable plainly: shared in the end
C7_Witness ==
  \E V \in Vars :
    /\ C7_Case(V) /\ PlainOrNonPointerBase(V)
    /\ last.InClauses[1].exprs[1].node = "subscript"
    /\ last.InClauses[1].exprs[1].idx[1] = Ref(V)
    /\ HasAttr(Top, V, {"shared"})

\* the clause walk classifies V firstprivate somewhere, shared somewhere
WalkFirstprivate(V) == InIndex(V) \/ PointerBase(V)

WalkShared(V) == PlainOrNonPointerBase(V)

MismatchReported(V) == DiagsFor("err_oss_mismatch_depend_dsa", V) > 0

\* C8 as stated: a symbol with an explicit shared attribute that the clause
\* walk classifies firstprivate, or with an explicit firstprivate attribute
\* that the walk classifies shared, gets a mismatch error.
C8_MismatchBothWays ==
  \A V \in Vars :
    ( AfterClauseWalk /\
      \/ ExplicitIn(last.pre, V, {"shared"}) /\ WalkFirstprivate(V)
      \/ ExplicitIn(last.pre, V, {"firstprivate"}) /\ WalkShared(V) )
    => MismatchReported(V)

\* C8, amended: a symbol with an explicit firstprivate attribute that the
\* clause walk classifies shared gets a mismatch error, and the walk sets its
\* error flag; a symbol with an explicit shared attribute gets none, whatever
\* the walk classifies it, and stays shared.
C8_MismatchFirstprivateOnly ==
  \A V \in Vars :
    AfterClauseWalk =>
      /\ (ExplicitIn(last.pre, V, {"firstprivate"}) /\ WalkShared(V))
           => MismatchReported(V) /\ last.ErrorFound
      /\ ExplicitIn(last.pre, V, {"shared"})
           => ~MismatchReported(V) /\ ExplicitIn(Top, V, {"shared"})

C8_Witness ==
  \E V \in Vars :
    /\ AfterClauseWalk
    /\ ExplicitIn(last.pre, V, {"firstprivate"}) /\ WalkShared(V)
    /\ MismatchReported(V)

\* C9: a variable referenced several times in the body of a construct is
\* recorded once: it occurs at most once in the implicit shared and implicit
\* firstprivate lists together, and in the implicit clauses built from them.
C9_RecordedOnce ==
  AfterBodyWalk =>
    \A V \in Vars :
      /\ Occurrences(last.ImplicitShared \o last.ImplicitFirstprivate, V) <= 1
      /\ \A c \in 1..Len(last.Clauses) : Occurrences(last.Clauses[c].vars, V) <= 1

C10_Case(V) ==
  /\ AfterBodyWalk
  /\ last.pre.DefaultAttr = "none"
  /\ RefersTo(V)
  /\ V \notin DOMAIN last.pre.SharingMap
  /\ ~InheritsFirstprivate(V)

\* C10: under default(none), a variable referenced in the body that has no
\* attribute in the construct and inherits none from an enclosing construct
\* gets exactly one diagnostic, however many times the body refers to it.
C10_OneDiagnostic ==
  \A V \in Vars :
    C10_Case(V) => DiagsFor("err_oss_not_defined_dsa_when_default_none", V) = 1

\* two references to the variable, one diagnostic
C10_Witness ==
  \E V \in Vars :
    /\ C10_Case(V) /\ NumRefersTo(V) >= 2
    /\ DiagsFor("err_oss_not_defined_dsa_when_default_none", V) = 1

\* C11: only the innermost scope is ever modified: the scopes that enclose a
\* scope are, while it is open and when it is popped, the same as they were
\* when it was pushed.
C11_OnlyInnermostModified ==
  /\ Len(pushed) \in {Len(Stack), Len(Stack) + 1}
  /\ \A i \in 1..Len(pushed) : pushed[i] = SubSeq(Stack, 1, i - 1)
  /\ last.op = "pop" => Len(pushed) = Len(Stack) + 1

\* a scope that recorded something is popped from a scope that had recorded
\* an attribute and a default policy before the push
C11_Witness ==
  /\ last.op = "pop"
  /\ last.pre.SharingMap # << >>
  /\ Len(Stack) > 0
  /\ Top.SharingMap # << >>
  /\ Top.DefaultAttr # "unspecified"

\* the handlers that run on the innermost scope and leave it open
InScopeHandlers ==
  {"ActOnOmpSsDefaultClause", "ActOnOmpSsVarListClause",
   "ActOnOmpSsAfterClauseGathering", "ActOnOmpSsExecutableDirective"}

DataSharingAttrs == {"shared", "private", "firstprivate"}

\* C12: the attribute an explicit shared, private or firstprivate clause
\* recorded for a symbol in a scope is still the symbol's attribute in that
\* scope after every handler that runs on the scope (a later explicit clause,
\* the clause walk, the body walk), and in an enclosing scope while nested
\* constructs are analysed.
C12_ExplicitKept ==
  /\ last.op \in InScopeHandlers =>
       \A V \in Vars, A \in DataSharingAttrs :
         ExplicitIn(last.pre, V, {A}) => HasAttr(Top, V, {A})
  /\ \A i \in Enclosing : \A V \in Vars, A \in DataSharingAttrs :
       ExplicitIn(pushed[i + 1][i], V, {A}) => HasAttr(Stack[i], V, {A})

\* a firstprivate clause names a symbol that an earlier clause made shared
C12_Witness ==
  /\ last.op = "ActOnOmpSsVarListClause"
  /\ last.Kind = "firstprivate"
  /\ \E V \in Vars :
       /\ ExplicitIn(last.pre, V, {"shared"})
       /\ InList(last.VarList, V)
       /\ DiagsFor("err_oss_wrong_dsa", V) > 0

\* the construct that directly encloses the construct being analysed
Parent == Stack[Len(Stack) - 1]

\* the body of a task without clauses was walked, it refers to V, and the
\* clause walk of the directly enclosing task gave V its attribute
C13_Case(V) ==
  /\ AfterBodyWalk
  /\ Len(Stack) >= 2
  /\ last.pre = SharingMapTy
  /\ RefersTo(V)
  /\ HasAttr(Parent, V, {"shared", "firstprivate"})
  /\ Parent.SharingMap[V].RefExpr.site = "dependency"

\* C13 as stated: the nested task makes V firstprivate when the enclosing
\* task made it firstprivate, shared when the enclosing task made it shared
\* and V has non-local storage, firstprivate when the enclosing task made it
\* shared and V has local storage.
C13_FromEnclosingAndStorage ==
  \A V \in Vars : C13_Case(V) =>
    /\ HasAttr(Parent, V, {"firstprivate"}) => BodyFirstprivate(V)
    /\ HasAttr(Parent, V, {"shared"}) /\ ~hasLocalStorage(V) => BodyShared(V)
    /\ HasAttr(Parent, V, {"shared"}) /\ hasLocalStorage(V) => BodyFirstprivate(V)

\* C13 amended: when the enclosing task made V shared, the nested task takes
\* firstprivate from the nearest farther enclosing construct that does not
\* make V shared, if that construct makes V private or firstprivate;
\* otherwise V's storage decides.
C13_FromEnclosingChainAndStorage ==
  \A V \in Vars : C13_Case(V) =>
    /\ HasAttr(Parent, V, {"firstprivate"}) => BodyFirstprivate(V)
    /\ HasAttr(Parent, V, {"shared"}) /\ InheritsFirstprivate(V) => BodyFirstprivate(V)
    /\ HasAttr(Parent, V, {"shared"}) /\ ~InheritsFirstprivate(V) /\ ~hasLocalStorage(V)
         => BodyShared(V)
    /\ HasAttr(Parent, V, {"shared"}) /\ ~InheritsFirstprivate(V) /\ hasLocalStorage(V)
         => BodyFirstprivate(V)

\* a symbol of non-local storage, shared by the depend clause of the
\* enclosing task, firstprivate in the task around that one
C13_Witness ==
  \E V \in Vars :
    /\ C13_Case(V)
    /\ HasAttr(Parent, V, {"shared"})
    /\ ~hasLocalStorage(V)
    /\ InheritsFirstprivate(V)

(***************************************************************************)
(* Properties of the region descriptors.                                   *)
(***************************************************************************)
\* a dependency was emitted
AfterEmitDependency == region.E # NullExpr

\* E is a symbol with subscripts only
RECURSIVE IsSubscriptChain(_)
IsSubscriptChain(E) ==
  CASE E.node = "DeclRefExpr" -> TRUE
    [] E.node = "ArraySubscriptExpr" -> IsSubscriptChain(E.base)
    [] OTHER -> FALSE

\* the symbol everything is written on
RECURSIVE BaseDecl(_)
BaseDecl(E) == IF E.node = "DeclRefExpr" THEN E.decl ELSE BaseDecl(E.base)

\* the subscripts of a chain, outermost dimension first
RECURSIVE Subscripts(_)
Subscripts(E) ==
  IF E.node = "DeclRefExpr" THEN << >> ELSE Append(Subscripts(E.base), E.idx)

\* the extents of the array dimensions of a declared type, outermost first
RECURSIVE Extents(_)
Extents(T) == IF T.kind = "array" THEN << T.size >> \o Extents(T.elem) ELSE << >>

\* the byte size of the elements of the innermost dimension
RECURSIVE ElementBytes(_)
ElementBytes(T) == IF T.kind = "array" THEN ElementBytes(T.elem) ELSE TypeSize(T)

\* the triple of dimension j (counted from 0) of an array of extents s with
\* subscripts i on its first dimensions
SubscriptTriple(s, i, j) ==
  IF j < Len(i) THEN << s[j + 1], i[j + 1], i[j + 1] + 1 >> ELSE << s[j + 1], 0, s[j + 1] >>

Scaled(t, B) == << t[1] * B, t[2] * B, t[3] * B >>

AsTuples(DepData) ==
  [m \in 1..Len(DepData) |-> << DepData[m].size, DepData[m].start, DepData[m].end >>]

\* C14: an array of n constant dimensions with k <= n subscripts yields n
\* triples, innermost dimension first; dimension j is (sj, ij, ij + 1) when
\* j < k and (sj, 0, sj) when j >= k, and the innermost dimension alone is
\* multiplied by the element size.
C14_SubscriptTriples ==
  (AfterEmitDependency /\ IsSubscriptChain(region.E)
     /\ isArray(DeclType(BaseDecl(region.E)))
     /\ Len(Subscripts(region.E)) <= Len(Extents(DeclType(BaseDecl(region.E))))) =>
    LET s == Extents(DeclType(BaseDecl(region.E)))
        i == Subscripts(region.E)
        n == Len(s)
        B == ElementBytes(DeclType(BaseDecl(region.E)))
    IN AsTuples(region.DepData) =
         [m \in 1..n |-> IF m = 1 THEN Scaled(SubscriptTriple(s, i, n - m), B)
                         ELSE SubscriptTriple(s, i, n - m)]

\* d[i0][i1] with different subscripts, on the array of three dimensions
C14_Witness ==
  /\ AfterEmitDependency
  /\ IsSubscriptChain(region.E)
  /\ BaseDecl(region.E) = "d"
  /\ Len(Subscripts(region.E)) = 2
  /\ Subscripts(region.E)[1] # Subscripts(region.E)[2]
  /\ Len(region.DepData) = 3

\* the subscripts and sections written on the symbol, and whether anything
\* else (a dereference) is written on it
RECURSIVE StepCount(_)
StepCount(E) == IF E.node = "DeclRefExpr" THEN 0 ELSE 1 + StepCount(E.base)

RECURSIVE HasDeref(_)
HasDeref(E) ==
  CASE E.node = "DeclRefExpr" -> FALSE
    [] E.node = "UnaryDeref" -> TRUE
    [] OTHER -> HasDeref(E.base)

\* C15 as stated: a dependency on a symbol declared with an array type has as
\* many triples as the declared type has array dimensions, whatever
\* subscripts, sections or dereferences are written on it.
C15_DimensionCount ==
  (AfterEmitDependency /\ ~region.Abort
     /\ isArray(DeclType(BaseDecl(region.E)))) =>
    Len(region.DepData) = Len(Extents(DeclType(BaseDecl(region.E))))

\* C15 amended: the count is that of the declared dimensions when only
\* subscripts and sections are written and each of them is written on an
\* array, that is, there are no more of them than declared dimensions.
C15_DimensionCountOnArrays ==
  (AfterEmitDependency
     /\ isArray(DeclType(BaseDecl(region.E)))
     /\ ~HasDeref(region.E)
     /\ StepCount(region.E) <= Len(Extents(DeclType(BaseDecl(region.E))))) =>
    /\ ~region.Abort
    /\ Len(region.DepData) = Len(Extents(DeclType(BaseDecl(region.E))))

\* a section written on a subscript of the array of three dimensions
C15_Witness ==
  /\ AfterEmitDependency
  /\ BaseDecl(region.E) = "d"
  /\ region.E.node = "OSSArraySectionExpr"
  /\ region.E.base.node = "ArraySubscriptExpr"
  /\ region.E.base.base.node = "DeclRefExpr"
  /\ Len(region.DepData) = 3

\* E is the symbol with subscripts and sections only
RECURSIVE IsSectionChain(_)
IsSectionChain(E) ==
  CASE E.node = "DeclRefExpr" -> TRUE
    [] E.node = "UnaryDeref" -> FALSE
    [] OTHER -> IsSectionChain(E.base)

\* a section written `[:]`
OmitsBoth(E) ==
  /\ E.node = "OSSArraySectionExpr"
  /\ E.ColonLocValid
  /\ E.LowerBound = << >>
  /\ E.LengthUpper = << >>

RECURSIVE HasOmitsBoth(_)
HasOmitsBoth(E) ==
  CASE E.node = "DeclRefExpr" -> FALSE
    [] OTHER -> OmitsBoth(E) \/ HasOmitsBoth(E.base)

\* E with every `[:]` rewritten as `[0 : extent]`, the extent being that of
\* the declared dimension the section is written on
RECURSIVE WithWrittenBounds(_)
WithWrittenBounds(E) ==
  CASE E.node = "DeclRefExpr" -> E
    [] OmitsBoth(E) ->
         OSSArraySectionExpr(WithWrittenBounds(E.base), << 0 >>,
           << Extents(DeclType(BaseDecl(E)))[StepCount(E)] >>, TRUE, E.ColonForm)
    [] OTHER -> [E EXCEPT !.base = WithWrittenBounds(E.base)]

\* C16: in depend syntax a section `[:]` gives the descriptor of the section
\* `[0 : extent]`, in each dimension of the array it is written on.
C16_OmittedBoundsAreFullExtent ==
  (AfterEmitDependency /\ ~region.OSSSyntax
     /\ IsSectionChain(region.E) /\ HasOmitsBoth(region.E)
     /\ StepCount(region.E) <= Len(Extents(DeclType(BaseDecl(region.E))))) =>
    /\ ~region.Abort
    /\ region.DepData = EmitDependency(WithWrittenBounds(region.E), FALSE).DepData

\* depend(in: b[:][:]) on the array of two dimensions
C16_Witness ==
  /\ AfterEmitDependency
  /\ ~region.OSSSyntax
  /\ BaseDecl(region.E) = "b"
  /\ OmitsBoth(region.E)
  /\ OmitsBoth(region.E.base)
  /\ region.E.base.base.node = "DeclRefExpr"
  /\ AsTuples(region.DepData) = << << 24, 0, 24 >>, << 5, 0, 5 >> >>

\* the end a section is written to have: lower + length in the length form,
\* upper + 1 in the bound form, lower + 1 without colon
WrittenEnd(ASE, OSSSyntax) ==
  CASE ASE.LengthUpper = << >> -> SectionIdx(ASE) + (IF ASE.ColonLocValid THEN 0 ELSE 1)
    [] OSSSyntax /\ ASE.ColonForm -> ASE.LengthUpper[1] + 1
    [] OTHER -> SectionIdx(ASE) + ASE.LengthUpper[1]

\* the written bounds of E stay inside the object: inside the extent where
\* they are written on an array (the extent of what a pointer points to is
\* not declared), and no section ends before it starts
RECURSIVE StaysInside(_, _)
StaysInside(E, OSSSyntax) ==
  CASE E.node = "DeclRefExpr" -> TRUE
    [] E.node = "UnaryDeref" -> StaysInside(E.base, OSSSyntax)
    [] E.node = "ArraySubscriptExpr" ->
         /\ isArray(getType(E.base)) => E.idx < getType(E.base).size
         /\ StaysInside(E.base, OSSSyntax)
    [] E.node = "OSSArraySectionExpr" ->
         /\ SectionIdx(E) <= WrittenEnd(E, OSSSyntax)
         /\ isArray(getBaseOriginalType(E.base)) =>
              WrittenEnd(E, OSSSyntax) <= getBaseOriginalType(E.base).size
         /\ StaysInside(E.base, OSSSyntax)

\* C17: every dimension of an emitted descriptor has 0 <= start <= end <= size
\* when the written bounds are non-negative constants that stay inside the
\* object, on arrays and on pointers, in the length form and the bound form.
C17_StartEndWithinSize ==
  (AfterEmitDependency /\ ~region.Abort
     /\ StaysInside(region.E, region.OSSSyntax)) =>
    \A m \in 1..Len(region.DepData) :
      /\ 0 <= region.DepData[m].start
      /\ region.DepData[m].start <= region.DepData[m].end
      /\ region.DepData[m].end <= region.DepData[m].size

\* a section with a separator and both operands written
BothWritten(E) ==
  /\ E.node = "OSSArraySectionExpr"
  /\ E.ColonLocValid
  /\ E.LowerBound # << >>
  /\ E.LengthUpper # << >>

\* the number of elements n of such a section of an OmpSs clause: written in
\* `[l ; n]`, and upper - l + 1 in `[l : upper]`
SectionLength(E) ==
  IF E.ColonForm THEN E.LengthUpper[1] - E.LowerBound[1] + 1 ELSE E.LengthUpper[1]

\* the sections of E that have a separator have both operands and name at
\* least one element, and there is one
RECURSIVE SectionsWritten(_)
SectionsWritten(E) ==
  CASE E.node = "DeclRefExpr" -> TRUE
    [] E.node = "OSSArraySectionExpr" /\ E.ColonLocValid ->
         BothWritten(E) /\ SectionLength(E) >= 1 /\ SectionsWritten(E.base)
    [] OTHER -> SectionsWritten(E.base)

RECURSIVE HasBothWritten(_)
HasBothWritten(E) ==
  CASE E.node = "DeclRefExpr" -> FALSE
    [] OTHER -> BothWritten(E) \/ HasBothWritten(E.base)

\* E of an OmpSs clause with every such section written `[l ; n]`
RECURSIVE InLengthForm(_)
InLengthForm(E) ==
  CASE E.node = "DeclRefExpr" -> E
    [] BothWritten(E) ->
         OSSArraySectionExpr(InLengthForm(E.base), E.LowerBound,
                             << SectionLength(E) >>, TRUE, FALSE)
    [] OTHER -> [E EXCEPT !.base = InLengthForm(E.base)]

\* ... written `[l : l + n - 1]`
RECURSIVE InBoundForm(_)
InBoundForm(E) ==
  CASE E.node = "DeclRefExpr" -> E
    [] BothWritten(E) ->
         OSSArraySectionExpr(InBoundForm(E.base), E.LowerBound,
                             << E.LowerBound[1] + SectionLength(E) - 1 >>, TRUE, TRUE)
    [] OTHER -> [E EXCEPT !.base = InBoundForm(E.base)]

\* ... written `[l : n]`, for a depend clause
RECURSIVE InDependForm(_)
InDependForm(E) ==
  CASE E.node = "DeclRefExpr" -> E
    [] BothWritten(E) ->
         OSSArraySectionExpr(InDependForm(E.base), E.LowerBound,
                             << SectionLength(E) >>, TRUE, TRUE)
    [] OTHER -> [E EXCEPT !.base = InDependForm(E.base)]

\* the sections of E, outermost written first, as Starts and Ends are
\* collected
RECURSIVE SectionsOf(_)
SectionsOf(E) ==
  CASE E.node = "DeclRefExpr" -> << >>
    [] E.node = "OSSArraySectionExpr" -> << E >> \o SectionsOf(E.base)
    [] OTHER -> SectionsOf(E.base)

RECURSIVE OnlySections(_)
OnlySections(E) ==
  CASE E.node = "DeclRefExpr" -> TRUE
    [] E.node = "OSSArraySectionExpr" -> OnlySections(E.base)
    [] OTHER -> FALSE

\* C18: in an OmpSs clause on an array of constant dimensions `a[l ; n]` and
\* `a[l : l + n - 1]` give the same descriptor, which is that of
\* depend(a[l : n]), with start l and end l + n in every dimension a section
\* is written on.
C18_SectionFormsAgree ==
  (AfterEmitDependency /\ region.OSSSyntax
     /\ IsSectionChain(region.E) /\ isArray(DeclType(BaseDecl(region.E)))
     /\ StepCount(region.E) <= Len(Extents(DeclType(BaseDecl(region.E))))
     /\ SectionsWritten(region.E) /\ HasBothWritten(region.E)) =>
    /\ region.DepData = EmitDependency(InLengthForm(region.E), TRUE).DepData
    /\ region.DepData = EmitDependency(InBoundForm(region.E), TRUE).DepData
    /\ region.DepData = EmitDependency(InDependForm(region.E), FALSE).DepData
    /\ OnlySections(region.E) =>
         \A k \in 1..Len(SectionsOf(region.E)) :
           BothWritten(SectionsOf(region.E)[k]) =>
             /\ region.Starts[k] = SectionsOf(region.E)[k].LowerBound[1]
             /\ region.Ends[k] = SectionsOf(region.E)[k].LowerBound[1]
                                   + SectionLength(SectionsOf(region.E)[k])

\* in(b[0 : 1][1 ; 1]): the bound form of two elements and the length form
C18_Witness ==
  /\ AfterEmitDependency
  /\ region.OSSSyntax
  /\ BaseDecl(region.E) = "b"
  /\ BothWritten(region.E) /\ ~region.E.ColonForm
  /\ BothWritten(region.E.base) /\ region.E.base.ColonForm
  /\ SectionLength(region.E.base) = 2
  /\ region.E.base.base.node = "DeclRefExpr"
  /\ AsTuples(region.DepData) = << << 24, 4, 8 >>, << 5, 0, 2 >> >>

(***************************************************************************)
(* Properties of the region analysis.                                      *)
(***************************************************************************)
\* the exit markers the scan has met and gone past
ExitsMet == {p \in PositionsOf(scan.F, "directive_region_exit") : p < scan.II}

\* the task that was appended to PostOrder when the exit marker at p was met:
\* every exit marker gone past appended one
PoppedAt(p) == scan.PostOrder[Cardinality({q \in ExitsMet : q <= p})]

\* C19: the task popped and appended to PostOrder at an exit marker is the
\* task of the entry marker whose token the exit marker uses.
C19_ExitClosesItsEntry ==
  \A p \in ExitsMet : PoppedAt(p).Entry = scan.F[p].Token

\* the instruction the scan is at and the task on top of the stack
AtOp(op) == Scanning /\ scan.F[scan.II].op = op

InnermostTask == scan.Stack[Len(scan.Stack)]

\* an exit marker is met while no task is open
ExitWithoutEntry == AtOp("directive_region_exit") /\ scan.Stack = << >>

\* an instruction or intrinsic call inside a task uses a value from outside
\* the task that is in none of the DSA sets of the task
ValueMissingFromDSA ==
  /\ AtOp("instruction") \/ AtOp("intrinsic")
  /\ scan.Stack # << >>
  /\ \E V \in scan.F[scan.II].Operands :
       /\ ~isInstruction(V) \/ V < InnermostTask.Entry
       /\ V \notin InnermostTask.DSAInfo

\* an instruction that is no intrinsic call, inside a task, uses an argument
\* or an instruction from before the entry that is in none of the DSA sets
\* of the task
UseMissingFromDSA ==
  /\ AtOp("instruction")
  /\ scan.Stack # << >>
  /\ \E V \in scan.F[scan.II].Operands :
       /\ V = Argument \/ (isInstruction(V) /\ V < InnermostTask.Entry)
       /\ V \notin InnermostTask.DSAInfo

\* an instruction inside a task is used after the exit of the task
UseAfterExit ==
  /\ AtOp("instruction")
  /\ scan.Stack # << >>
  /\ \E U \in (scan.II + 1)..Len(scan.F) :
       /\ U > InnermostTask.Exit
       /\ \/ scan.F[U].op \in {"instruction", "intrinsic"} /\ scan.II \in scan.F[U].Operands
          \/ scan.F[U].op = "directive_region_entry" /\ scan.II \in scan.F[U].DSA

\* the step aborts the analysis
Aborts == scan'.Abort # "none"

ScanCompleted == scan.Abort = "none" /\ scan.II = Len(scan.F) + 1

\* the instruction at p lies between the entry at e and the exit that uses
\* its token
InsideTask(p, e) ==
  /\ scan.F[e].op = "directive_region_entry"
  /\ e < p
  /\ \E x \in EntryUsers(scan.F, e) : p < x

\* C21 as stated: with checks enabled the scan completes only if every
\* operand of an instruction inside a task that is defined outside the task
\* (an instruction before the entry, an argument or a global) is in the DSA
\* sets of the task.
C21_CompletedImpliesOperandsInDSA ==
  (ScanCompleted /\ ~scan.DisableChecks) =>
    \A p \in 1..Len(scan.F) : \A e \in 1..Len(scan.F) :
      (scan.F[p].op \in {"instruction", "intrinsic"} /\ InsideTask(p, e)) =>
        \A V \in scan.F[p].Operands :
          (~isInstruction(V) \/ V < e) => V \in scan.F[e].DSA

\* the tasks the scan has opened
TasksSeen ==
  {scan.PostOrder[k] : k \in 1..Len(scan.PostOrder)}
    \cup {scan.Stack[k] : k \in 1..Len(scan.Stack)}

\* C21 amended: with checks enabled the scan completes only if every
\* argument and every instruction before the entry that was recorded as used
\* before the entry of a task (an operand of an instruction that is no
\* intrinsic call, met while the task was on top of the stack) is in the DSA
\* sets of the task.
C21_CompletedImpliesUsesInDSA ==
  (ScanCompleted /\ ~scan.DisableChecks) =>
    \A T \in TasksSeen : \A V \in T.UsesBeforeEntry : valueInDSABundles(T.DSAInfo, V)

\* a completed scan with checks enabled of a task that lists an instruction
\* in its DSA sets and uses it
C21_Witness ==
  /\ ScanCompleted
  /\ ~scan.DisableChecks
  /\ \E k \in 1..Len(scan.PostOrder) :
       \E V \in scan.PostOrder[k].UsesBeforeEntry : isInstruction(V)


(***************************************************************************)
(* C25                                                                     *)
(***************************************************************************)
\* the handler that returned last is the validator of a shared, private or
\* firstprivate clause
ValidatorReturned ==
  /\ last.op = "ActOnOmpSsVarListClause"
  /\ last.Kind \in {"shared", "private", "firstprivate"}

\* C25: a validator of the shared, private or firstprivate clause that
\* emitted a diagnostic for any item of its list returns null
C25_DiagnosedClauseIsNull ==
  (ValidatorReturned /\ last.Diags # << >>) => last.Res = "null"


(***************************************************************************)
(* C26                                                                     *)
(***************************************************************************)
\* the clause validated last was written with a type- or value-dependent
\* expression
DependentSingleExpr ==
  /\ single.Kind \in SingleExprKinds
  /\ single.Expr.TypeDependent \/ single.Expr.ValueDependent

\* C26: validating an if, final, cost or priority clause whose expression is
\* type- or value-dependent emits no diagnostic and yields a clause that
\* carries the expression as it was written
C26_DependentExprUnchanged ==
  DependentSingleExpr =>
    /\ single.Diags = << >>
    /\ ~single.Abort
    /\ single.Res = "clause"
    /\ single.Clause = single.Expr


(***************************************************************************)
(* C28                                                                     *)
(***************************************************************************)
\* the diagnostics of the validation of the dependency kinds
DependKindDiags ==
  {"err_oss_depend_no_weak_compatible", "err_oss_depend_weak_required",
   "err_oss_unexpected_clause_value"}

\* an item a dependency clause may name: an lvalue that subscripts nothing
\* but arrays and pointers
WellFormedItem(RefExpr) ==
  RefExpr.isLValue /\ RefExpr.aseBase \in {"none", "array", "pointer"}

\* C28: the kind list built for any of the dependency clause keywords passes
\* the validation of the dependency kinds without a diagnostic, and a clause
\* of well-formed items yields a clause object
C28_KeywordKindsAccepted ==
  dep.Kind \in DependencyKeywords =>
    /\ \A i \in 1..Len(dep.Diags) : dep.Diags[i].kind \notin DependKindDiags
    /\ (\A k \in 1..Len(dep.VarList) : WellFormedItem(dep.VarList[k])) =>
         dep.Res = "OSSDependClause"


(***************************************************************************)
(* C29                                                                     *)
(***************************************************************************)
\* the depend and reduction clauses just walked mention V, which has no
\* attribute from a clause written on the construct
C29_Case(V) ==
  /\ AfterClauseWalk
  /\ V \notin DOMAIN last.pre.SharingMap
  /\ WalkShared(V) \/ WalkFirstprivate(V)

Entries(F) == PositionsOf(F, "directive_region_entry")

\* the exit marker that uses the token of the entry at p
ExitOf(F, p) == CHOOSE q \in EntryUsers(F, p) : TRUE

\* the task of the entry at inner lies inside the task of the entry at outer
NestedIn(F, inner, outer) ==
  outer < inner /\ ExitOf(F, inner) < ExitOf(F, outer)

\* every entry marker has one user, an exit marker it dominates; every exit
\* marker uses the token of an entry; two task regions are nested or apart
WellNested(F) ==
  /\ \A p \in Entries(F) :
       /\ Cardinality(EntryUsers(F, p)) = 1
       /\ \A q \in EntryUsers(F, p) : dominates(p, q)
  /\ \A q \in PositionsOf(F, "directive_region_exit") : F[q].Token \in Entries(F)
  /\ \A p1, p2 \in Entries(F) :
       p1 < p2 => (ExitOf(F, p1) < p2 \/ ExitOf(F, p2) < ExitOf(F, p1))

\* the place of the task of the entry at p in PostOrder
PostOrderIndex(p) == CHOOSE k \in 1..Len(scan.PostOrder) : scan.PostOrder[k].Entry = p

Lowered == lower.TI # << >>

\* lowerTask went through: no assert ended the compilation
LoweredWhole == Lowered /\ ~lower.Abort

\* the values of the DSA sets and the captured values, in the order of the
\* sets and of their iteration
ValuesInOrder(TI) == TI.Shared \o TI.Private \o TI.Firstprivate \o TI.CapturedInfo

\* C22: the argument block type has |shared| + |private| + |firstprivate| +
\* |captured| members: the shared symbols, then the private, then the
\* firstprivate, then the captured values, each group in the iteration
\* order of its set
C22_ArgsTypeLayout ==
  Lowered =>
    /\ Len(lower.TaskArgsTy) =
         Len(lower.TI.Shared) + Len(lower.TI.Private)
         + Len(lower.TI.Firstprivate) + Len(lower.TI.CapturedInfo)
    /\ [k \in 1..Len(lower.TaskArgsTy) |-> lower.TaskArgsTy[k].V] = ValuesInOrder(lower.TI)

\* shared(2) firstprivate(1) and the captured values 4 and 3, in that order
C22_Witness ==
  /\ Lowered
  /\ lower.TI.Shared = << 2 >>
  /\ lower.TI.Firstprivate = << 1 >>
  /\ lower.TI.CapturedInfo = << 4, 3 >>
  /\ lower.TaskArgsTy =
       << [V |-> 2, Ty |-> "pointer"], [V |-> 1, Ty |-> "element"],
          [V |-> 4, Ty |-> "i64"], [V |-> 3, Ty |-> "i64"] >>

\* the value the record of implementations_var holds in the field Name
FieldOf(Name) ==
  lower.TaskImplInfoVar[CHOOSE k \in 1..Len(Nanos6TaskImplInfo) : Nanos6TaskImplInfo[k] = Name]

\* C23: in the task implementation info record the outlined run function is
\* in `run`, the constraints function in `get_constraints` (null without a
\* cost clause), and `task_label` and `declaration_source` hold a string or
\* null
C23_ImplInfoFields ==
  lower.TaskImplInfoVar # << >> =>
    /\ FieldOf("run") = FunctionPtr("nanos6_ol_task_region")
    /\ FieldOf("get_constraints") =
         IF lower.TI.Cost THEN FunctionPtr("nanos6_ol_constraints") ELSE ConstantPointerNull
    /\ FieldOf("task_label").kind \in {"string", "null"}
    /\ FieldOf("declaration_source").kind \in {"string", "null"}

\* C24: every call that registers a dependency is to
\* nanos6_register_region_<kind>_depinfo<N> with N from 1 to 8 and passes
\* 3 * N values after the base address; a dependency of 0 or of more than 8
\* dimensions gets no call
C24_DepCallDims ==
  \A k \in 1..Len(lower.DepCalls) :
    /\ lower.DepCalls[k].Callee.Ndims \in 1..MAX_DEP_DIMS
    /\ lower.DepCalls[k].Values = 3 * lower.DepCalls[k].Callee.Ndims

====
